---- MODULE Spec2Model ----
(***************************************************************************)
(* ClawStreetBots: the vote ledger and the score/karma aggregator of       *)
(* src/src/routers/posts.py over the tables of src/src/models.py.          *)
(*                                                                         *)
(* Spec      one server process: the handlers are async functions without  *)
(*           a suspension point between their first query and the commit,  *)
(*           so each call is one atomic step.                              *)
(* SpecConc  several server processes on one database: every SQL statement *)
(*           of a handler is a step of its own and the steps of different  *)
(*           requests interleave (READ COMMITTED: a SELECT sees what has   *)
(*           been committed, a commit publishes its writes at once).       *)
(* SpecHub   one server process with its event loop: the handlers, the     *)
(*           broadcast tasks they schedule (src/src/websocket.py) and the  *)
(*           /ws endpoint of every viewer (src/src/main.py); a step runs a *)
(*           coroutine from one suspension point to the next.              *)
(* SpecWrite   the handlers that write posts, votes and comments and the   *)
(*             tasks they schedule, no viewer being connected.             *)
(* SpecAgents  SpecWrite with the handlers of src/src/routers/agents.py    *)
(*             that write or read an agent's row.                          *)
(* SpecFeed    one call of GET /api/v1/posts over a posts table.           *)
(* SpecTickers one call of a ticker endpoint of                            *)
(*             src/src/routers/tickers.py over a posts table.              *)
(* SpecHubFair SpecHub in which the event loop keeps running the           *)
(*             coroutines that are ready (sends may stay pending).         *)
(* SpecLoop    the vote handlers as coroutines of one event loop: a        *)
(*             handler gives the loop away only at an await.               *)
(* SpecMain    the vote routes src/src/main.py registers on the app.       *)
(***************************************************************************)
EXTENDS Integers, FiniteSets, Sequences, TLC

\* ---------------------------------------------------------------- bounds
NumAgents == 2
NumWorkers == 2
\* the requests a run serves (SpecConc); the requests and the client texts
\* the event loop receives (SpecHub)
MaxRequests == 2

Agents == 1..NumAgents
Workers == 1..NumWorkers

\* the posts table at the start: two posts, both created by agent 1
\* (posts.agent_id is set by create_post and never changed)
PostOwners == <<1, 1>>
PostIds == DOMAIN PostOwners
\* post_id: int = Path(..., ge=1, ...): one requested id has no row
RequestedIds == PostIds \cup {Len(PostOwners) + 1}

\* the viewers that may open /ws
NumConnections == 2
Connections == 1..NumConnections
\* the rows the posts and comments tables may grow to (SpecHub)
MaxPosts == 4
MaxComments == 2
\* the rows of the posts table a feed read sees (SpecFeed)
MaxFeedPosts == 3
\* the rows of the posts tables whose tickers columns differ (SpecTickers)
MaxMentionPosts == 2
\* the rows the hot branch of get_posts loads: .limit(200), scaled down so
\* that the table can be larger than the window
HotWindow == 2

\* ---------------------------------------------------------------- tables
\* db        the committed rows of posts, agents (karma) and votes
\* response  what the last completed request returned
\* last      the last completed request: who voted on what, the Vote row
\*           operation it committed, the commits it attempted
\* outbox    the coroutines the last completed request handed to
\*           asyncio.create_task, in order
\* sess      the open request of every worker (SpecConc)
\* started   the requests accepted so far (SpecConc, SpecHub)
\* active_connections, lock   ConnectionManager's set and its asyncio.Lock
\* tasks     the broadcast tasks created on the event loop, oldest first
\* ws        every viewer's /ws endpoint call and its client
\* comments  the committed rows of the comments table
\* feed      the posts table a read endpoint sees, the request it served
\*           and what it returned (SpecFeed)
VARIABLES db, response, last, outbox, sess, started, comments,
          active_connections, lock, tasks, ws, feed

hub == <<active_connections, lock, tasks, ws>>
vars == <<db, response, last, outbox, sess, started, comments,
          active_connections, lock, tasks, ws, feed>>

\* no read endpoint has been called
NoFeed == [posts |-> <<>>, request |-> <<>>, status |-> 0, posts_all |-> <<>>,
           result |-> <<>>, stats |-> <<>>]

\* A nullable column is a sequence: <<>> for None, <<v>> for the value v
None == <<>>
Some(v) == <<v>>

\* Post: upvotes, downvotes, score are Column(Integer, default=0)
NewPost(owner) == [agent_id |-> owner, upvotes |-> 0, downvotes |-> 0, score |-> 0]

\* .first() on an empty result: None
NoPost == [agent_id |-> 0, upvotes |-> 0, downvotes |-> 0, score |-> 0]
NoRow == [id |-> 0, agent_id |-> 0, post_id |-> 0, vote |-> 0]

\* a Float column that holds a quotient: the quotient in lowest terms
RECURSIVE GCD(_, _)
GCD(m, n) == IF n = 0 THEN m ELSE GCD(n, m % n)
Quotient(num, den) == [num |-> num \div GCD(num, den), den |-> den \div GCD(num, den)]

\* Agent: the profile columns register wrote, the statistics and the
\* social counters at their defaults (karma is kept in db.karma)
NewAgent ==
    [name |-> "name", description |-> None, avatar_url |-> None,
     total_gain_loss_pct |-> 0, win_rate |-> Quotient(0, 1), total_trades |-> 0,
     follower_count |-> 0, following_count |-> 0]

\* Agent.karma = Column(Integer, default=0); no post has a vote yet, no post
\* reports an outcome (Post.gain_loss_pct), nobody follows anybody
InitDb ==
    [posts |-> [p \in PostIds |-> NewPost(PostOwners[p])],
     karma |-> [a \in Agents |-> 0],
     votes |-> {},
     gain_loss_pct |-> [p \in PostIds |-> None],
     agents |-> [a \in Agents |-> NewAgent],
     follows |-> {}]

\* ------------------------------------------------------------- responses
NoResponse == [status |-> 0, score |-> 0, upvotes |-> 0, downvotes |-> 0]
NotFound == [status |-> 404, score |-> 0, upvotes |-> 0, downvotes |-> 0]
ServerError == [status |-> 500, score |-> 0, upvotes |-> 0, downvotes |-> 0]

\* return {"score": post.score, "upvotes": post.upvotes, "downvotes": post.downvotes}
\* db.commit() expired post: its attributes are read again from the row
VoteResult(d, p) ==
    [status |-> 200, score |-> d.posts[p].score,
     upvotes |-> d.posts[p].upvotes, downvotes |-> d.posts[p].downvotes]

\* ------------------------------------------------- the session of a call
NoPending == [op |-> "none", vote |-> 0]

IdleSession ==
    [pc |-> "idle", voter |-> 0, post_id |-> 0, endpoint |-> "",
     agents |-> <<>>, post |-> NoPost, dirty |-> {}, existing |-> NoRow,
     pending |-> NoPending, attempts |-> 0]

NewSession(v, p, e) ==
    [IdleSession EXCEPT !.voter = v, !.post_id = p, !.endpoint = e]

\* agent = require_agent(credentials, request, db): the voter's row enters
\* the session's identity map (callers with a valid key only)
require_agent(d, s) == [s EXCEPT !.agents = (s.voter :> d.karma[s.voter])]

\* post = db.query(Post).filter(Post.id == post_id).first()
query_post(d, s) ==
    [s EXCEPT !.post = IF s.post_id \in DOMAIN d.posts
                       THEN d.posts[s.post_id] ELSE NoPost]

\* db.query(Vote).filter(Vote.agent_id == agent.id, Vote.post_id == post_id)
MatchingVotes(d, a, p) == {row \in d.votes : row.agent_id = a /\ row.post_id = p}

\* ... .first(): one of the matching rows, None when there is none
FirstVote(d, a, p) ==
    IF MatchingVotes(d, a, p) = {} THEN {NoRow} ELSE MatchingVotes(d, a, p)

\* post.agent: lazy load of the owner's row unless the identity map has it
load_owner(d, s) ==
    IF s.post.agent_id \in DOMAIN s.agents THEN s
    ELSE [s EXCEPT !.agents = @ @@ (s.post.agent_id :> d.karma[s.post.agent_id])]

\* a faulty variant of Assign: post.agent.karma is kept at zero or above
Assign_ClampKarma(s, du, dd, ds, dk, op, vote) ==
    [s EXCEPT !.post.upvotes = @ + du,
              !.post.downvotes = @ + dd,
              !.post.score = @ + ds,
              !.agents[s.post.agent_id] = IF @ + dk < 0 THEN 0 ELSE @ + dk,
              !.dirty = (IF du # 0 THEN {"upvotes"} ELSE {})
                        \cup (IF dd # 0 THEN {"downvotes"} ELSE {})
                        \cup (IF ds # 0 THEN {"score"} ELSE {}),
              !.pending = [op |-> op, vote |-> vote]]

\* the attribute assignments of one branch of a vote handler: the counters
\* moved by du, dd, ds, the owner's karma by dk, and the Vote row operation
Assign(s, du, dd, ds, dk, op, vote) ==
    [s EXCEPT !.post.upvotes = @ + du,
              !.post.downvotes = @ + dd,
              !.post.score = @ + ds,
              !.agents[s.post.agent_id] = @ + dk,
              !.dirty = (IF du # 0 THEN {"upvotes"} ELSE {})
                        \cup (IF dd # 0 THEN {"downvotes"} ELSE {})
                        \cup (IF ds # 0 THEN {"score"} ELSE {}),
              !.pending = [op |-> op, vote |-> vote]]

\* ---- faulty variants of the handlers' branches (what a slip in a branch
\* ---- would look like; each replaces the definition it is named after)
\* "Remove upvote" writes vote = 0 instead of deleting the row
upvote_mutate_SoftDelete(s) ==
    IF s.existing # NoRow
    THEN IF s.existing.vote = 1
         THEN Assign(s, -1, 0, -1, -1, "update", 0)
         ELSE Assign(s, 1, -1, 2, 2, "update", 1)
    ELSE Assign(s, 1, 0, 1, 1, "insert", 1)

\* "Change downvote to upvote" moves score and karma by 1 instead of 2
upvote_mutate_FlipByOne(s) ==
    IF s.existing # NoRow
    THEN IF s.existing.vote = 1
         THEN Assign(s, -1, 0, -1, -1, "delete", 0)
         ELSE Assign(s, 1, -1, 1, 1, "update", 1)
    ELSE Assign(s, 1, 0, 1, 1, "insert", 1)

\* "New upvote" forgets post.agent.karma += 1
upvote_mutate_NoKarma(s) ==
    IF s.existing # NoRow
    THEN IF s.existing.vote = 1
         THEN Assign(s, -1, 0, -1, -1, "delete", 0)
         ELSE Assign(s, 1, -1, 2, 2, "update", 1)
    ELSE Assign(s, 1, 0, 1, 0, "insert", 1)

\* "Remove downvote" does post.score -= 1 instead of += 1
downvote_mutate_ScoreSign(s) ==
    IF s.existing # NoRow
    THEN IF s.existing.vote = -1
         THEN Assign(s, 0, -1, -1, 1, "delete", 0)
         ELSE Assign(s, -1, 1, -2, -2, "update", -1)
    ELSE Assign(s, 0, 1, -1, -1, "insert", -1)

\* "Remove downvote" forgets post.downvotes -= 1 and post.score += 1
downvote_mutate_KeepCounters(s) ==
    IF s.existing # NoRow
    THEN IF s.existing.vote = -1
         THEN Assign(s, 0, 0, 0, 1, "delete", 0)
         ELSE Assign(s, -1, 1, -2, -2, "update", -1)
    ELSE Assign(s, 0, 1, -1, -1, "insert", -1)

\* "Change upvote to downvote" moves score and karma by 1 instead of 2
downvote_mutate_FlipByOne(s) ==
    IF s.existing # NoRow
    THEN IF s.existing.vote = -1
         THEN Assign(s, 0, -1, 1, 1, "delete", 0)
         ELSE Assign(s, -1, 1, -1, -1, "update", -1)
    ELSE Assign(s, 0, 1, -1, -1, "insert", -1)

\* "Change downvote to upvote" forgets post.downvotes -= 1
upvote_mutate_FlipKeepsDownvote(s) ==
    IF s.existing # NoRow
    THEN IF s.existing.vote = 1
         THEN Assign(s, -1, 0, -1, -1, "delete", 0)
         ELSE Assign(s, 1, 0, 2, 2, "update", 1)
    ELSE Assign(s, 1, 0, 1, 1, "insert", 1)

\* upvote_post: "Check existing vote" and its three branches
upvote_mutate(s) ==
    IF s.existing # NoRow
    THEN IF s.existing.vote = 1
         THEN \* Remove upvote; db.delete(existing)
              Assign(s, -1, 0, -1, -1, "delete", 0)
         ELSE \* Change downvote to upvote; existing.vote = 1
              Assign(s, 1, -1, 2, 2, "update", 1)
    ELSE \* New upvote; db.add(Vote(..., vote=1))
         Assign(s, 1, 0, 1, 1, "insert", 1)

\* downvote_post: "Check existing vote" and its three branches
downvote_mutate(s) ==
    IF s.existing # NoRow
    THEN IF s.existing.vote = -1
         THEN \* Remove downvote; db.delete(existing)
              Assign(s, 0, -1, 1, 1, "delete", 0)
         ELSE \* Change upvote to downvote; existing.vote = -1
              Assign(s, -1, 1, -2, -2, "update", -1)
    ELSE \* New downvote; db.add(Vote(..., vote=-1))
         Assign(s, 0, 1, -1, -1, "insert", -1)

mutate(s) == IF s.endpoint = "up" THEN upvote_mutate(s) ELSE downvote_mutate(s)

\* ------------------------------------------------------------- db.commit()
SameRow(r1, r2) ==
    r1.id = r2.id /\ r1.agent_id = r2.agent_id /\ r1.post_id = r2.post_id

\* Vote.id, the autoincremented primary key. Ids are only compared between
\* rows of one (agent_id, post_id) pair (the handler's query filters on
\* both), so rows are numbered per pair, and a new row gets the least id
\* that no row of the pair and no open session's `existing` carries.
FreshId(d, held, a, p) ==
    LET used == {row.id : row \in MatchingVotes(d, a, p)}
                \cup {h.id : h \in {x \in held : x.agent_id = a /\ x.post_id = p}}
        free == (1..(Cardinality(used) + 1)) \ used
    IN CHOOSE n \in free : \A m \in free : n <= m

\* Index("ix_votes_agent_post", "agent_id", "post_id", unique=True):
\* the INSERT of a second row of a pair raises IntegrityError
UniqueViolation(d, s) ==
    s.pending.op = "insert" /\ MatchingVotes(d, s.voter, s.post_id) # {}

\* UPDATE votes SET vote=? WHERE id=? matching no row raises StaleDataError
\* (a DELETE matching no row only warns)
StaleUpdate(d, s) ==
    s.pending.op = "update" /\ ~\E row \in d.votes : SameRow(row, s.existing)

\* UPDATE posts SET <the assigned columns> WHERE id = post_id
WritePost(row, s) ==
    [agent_id |-> row.agent_id,
     upvotes |-> IF "upvotes" \in s.dirty THEN s.post.upvotes ELSE row.upvotes,
     downvotes |-> IF "downvotes" \in s.dirty THEN s.post.downvotes ELSE row.downvotes,
     score |-> IF "score" \in s.dirty THEN s.post.score ELSE row.score]

\* INSERT INTO votes / UPDATE votes / DELETE FROM votes of the pending row
WriteVotes(d, s, held) ==
    CASE s.pending.op = "insert" ->
            d.votes \cup {[id |-> FreshId(d, held, s.voter, s.post_id),
                           agent_id |-> s.voter, post_id |-> s.post_id,
                           vote |-> s.pending.vote]}
      [] s.pending.op = "update" ->
            {IF SameRow(row, s.existing)
             THEN [row EXCEPT !.vote = s.pending.vote] ELSE row : row \in d.votes}
      [] s.pending.op = "delete" ->
            {row \in d.votes : ~SameRow(row, s.existing)}
      [] OTHER -> d.votes

\* a faulty variant of commit: the UPDATE of the post outlives the error
\* that the statement on votes raises
commit_KeepsFlushed(d, s, held) ==
    IF UniqueViolation(d, s) \/ StaleUpdate(d, s)
    THEN [ok |-> FALSE,
          db |-> [d EXCEPT !.posts = [@ EXCEPT ![s.post_id] = WritePost(@, s)]]]
    ELSE [ok |-> TRUE,
          db |-> [d EXCEPT !.posts = [@ EXCEPT ![s.post_id] = WritePost(@, s)],
                           !.karma = [@ EXCEPT ![s.post.agent_id] = s.agents[s.post.agent_id]],
                           !.votes = WriteVotes(d, s, held)]]

\* a faulty variant of commit: the karma is written to the voter's row
commit_KarmaOfVoter(d, s, held) ==
    IF UniqueViolation(d, s) \/ StaleUpdate(d, s)
    THEN [ok |-> FALSE, db |-> d]
    ELSE [ok |-> TRUE,
          db |-> [d EXCEPT !.posts = [@ EXCEPT ![s.post_id] = WritePost(@, s)],
                           !.karma = [@ EXCEPT ![s.voter] = s.agents[s.post.agent_id]],
                           !.votes = WriteVotes(d, s, held)]]

\* db.commit(): flush every pending write and commit, or raise and leave
\* the database as it was (get_db closes the session, which rolls back)
commit(d, s, held) ==
    IF UniqueViolation(d, s) \/ StaleUpdate(d, s)
    THEN [ok |-> FALSE, db |-> d]
    ELSE [ok |-> TRUE,
          db |-> [d EXCEPT !.posts = [@ EXCEPT ![s.post_id] = WritePost(@, s)],
                           !.karma = [@ EXCEPT ![s.post.agent_id] = s.agents[s.post.agent_id]],
                           !.votes = WriteVotes(d, s, held)]]

\* what `last` keeps of a finished request; op is the row operation it
\* committed ("none" when nothing was committed)
NoCall == [voter |-> 0, post_id |-> 0, endpoint |-> "", op |-> "none", attempts |-> 0]

Completed(s, committed) ==
    [voter |-> s.voter, post_id |-> s.post_id, endpoint |-> s.endpoint,
     op |-> IF committed THEN s.pending.op ELSE "none", attempts |-> s.attempts]

\* ------------------------------------------------------- the viewers
\* websocket.send_text("pong"): a frame whose payload is the bare text
TextFrame(text) == [text |-> text]

\* self._lock = asyncio.Lock(): nobody holds it
NoHolder == <<>>

\* a viewer that has not opened /ws yet
\* pc      where its websocket_endpoint call stands
\* client  the viewer's side of the socket: absent, open, closed
\* inbox   what the client sent and receive_text has not returned yet
\* sent    everything the client sent
\* pushed  every frame the client was sent: a JSON object or a plain text
NoEndpoint ==
    [pc |-> "closed", client |-> "absent", inbox |-> <<>>, sent |-> <<>>,
     pushed |-> <<>>]

\* a broadcast task whose coroutine has not built its envelope yet
NoMessage == [type |-> "", data |-> <<>>, timestamp |-> ""]

\* datetime.utcnow().isoformat(): the text of the instant; the clock is
\* read as the number of broadcasts that have started
isoformat(now) == ToString(now)

\* ------------------------------------------------------ the broadcasts
\* broadcast_post_vote(post_id, post.score, post.upvotes, post.downvotes):
\* the coroutine and its arguments, read from the row after the commit
broadcast_post_vote(d, p) ==
    [type |-> "post_vote",
     data |-> [post_id |-> p, score |-> d.posts[p].score,
               upvotes |-> d.posts[p].upvotes, downvotes |-> d.posts[p].downvotes]]

\* asyncio.create_task(broadcast_post_vote(...)) of the vote handlers
create_task_post_vote(d, p) == <<broadcast_post_vote(d, p)>>

\* broadcast_new_post({...}) of create_post, after db.refresh(post)
broadcast_new_post(d, id) ==
    [type |-> "new_post",
     data |-> [id |-> id, agent_id |-> d.posts[id].agent_id,
               upvotes |-> d.posts[id].upvotes, downvotes |-> d.posts[id].downvotes,
               score |-> d.posts[id].score, comment_count |-> 0]]

\* broadcast_new_comment({...}) of create_comment, after db.refresh(comment)
broadcast_new_comment(row) ==
    [type |-> "new_comment",
     data |-> [id |-> row.id, post_id |-> row.post_id, agent_id |-> row.agent_id,
               score |-> 0, parent_id |-> row.parent_id]]

\* ------------------------------------------------ one whole call (Spec)
\* a faulty variant of VoteOutcomes: the broadcast is scheduled before the
\* post is looked up
VoteOutcomes_PublishBeforeLookup(d, v, p, e) ==
    LET s2 == query_post(d, require_agent(d, NewSession(v, p, e)))
        nothing == [post_id |-> p, score |-> 0, upvotes |-> 0, downvotes |-> 0]
    IN IF s2.post = NoPost
       THEN {[db |-> d, response |-> NotFound, call |-> Completed(s2, FALSE),
              created |-> <<[type |-> "post_vote", data |-> nothing]>>]}
       ELSE {LET s4 == [mutate(load_owner(d, [s2 EXCEPT !.existing = row]))
                           EXCEPT !.attempts = @ + 1]
                 c == commit(d, s4, {})
             IN IF c.ok
                THEN [db |-> c.db, response |-> VoteResult(c.db, p),
                      call |-> Completed(s4, TRUE),
                      created |-> create_task_post_vote(c.db, p)]
                ELSE [db |-> d, response |-> ServerError,
                      call |-> Completed(s4, FALSE), created |-> <<>>]
             : row \in FirstVote(d, v, p)}

\* The outcomes of a vote handler run from its first line to its return on
\* database d: the database it leaves, the response it gives, what it did.
VoteOutcomes(d, v, p, e) ==
    LET s2 == query_post(d, require_agent(d, NewSession(v, p, e)))
    IN IF s2.post = NoPost
       THEN {[db |-> d, response |-> NotFound, call |-> Completed(s2, FALSE),
              created |-> <<>>]}
       ELSE {LET s4 == [mutate(load_owner(d, [s2 EXCEPT !.existing = row]))
                           EXCEPT !.attempts = @ + 1]
                 c == commit(d, s4, {})
             IN IF c.ok
                THEN [db |-> c.db, response |-> VoteResult(c.db, p),
                      call |-> Completed(s4, TRUE),
                      created |-> create_task_post_vote(c.db, p)]
                ELSE [db |-> d, response |-> ServerError,
                      call |-> Completed(s4, FALSE), created |-> <<>>]
             : row \in FirstVote(d, v, p)}

Init ==
    /\ db = InitDb
    /\ response = NoResponse
    /\ last = NoCall
    /\ outbox = <<>>
    /\ sess = [w \in Workers |-> IdleSession]
    /\ started = 0
    /\ comments = {}
    /\ active_connections = {}
    /\ lock = NoHolder
    /\ tasks = <<>>
    /\ ws = [c \in Connections |-> NoEndpoint]
    /\ feed = NoFeed

\* POST /api/v1/posts/{post_id}/upvote
upvote_post(v, p) ==
    /\ \E o \in VoteOutcomes(db, v, p, "up") :
          db' = o.db /\ response' = o.response /\ last' = o.call
          /\ outbox' = o.created
    /\ UNCHANGED <<sess, started, comments, feed, hub>>

\* POST /api/v1/posts/{post_id}/downvote
downvote_post(v, p) ==
    /\ \E o \in VoteOutcomes(db, v, p, "down") :
          db' = o.db /\ response' = o.response /\ last' = o.call
          /\ outbox' = o.created
    /\ UNCHANGED <<sess, started, comments, feed, hub>>

Next ==
    \E v \in Agents, p \in RequestedIds :
        \/ upvote_post(v, p)
        \/ downvote_post(v, p)

Spec == Init /\ [][Next]_vars

\* ------------------------- the vote routes of src/src/main.py (SpecMain)
\* main.py upvote_post: the three branches assign the counters and the
\* Vote row; post.agent is not touched
main_upvote_mutate(s) ==
    IF s.existing # NoRow
    THEN IF s.existing.vote = 1
         THEN Assign(s, -1, 0, -1, 0, "delete", 0)
         ELSE Assign(s, 1, -1, 2, 0, "update", 1)
    ELSE Assign(s, 1, 0, 1, 0, "insert", 1)

\* main.py downvote_post
main_downvote_mutate(s) ==
    IF s.existing # NoRow
    THEN IF s.existing.vote = -1
         THEN Assign(s, 0, -1, 1, 0, "delete", 0)
         ELSE Assign(s, -1, 1, -2, 0, "update", -1)
    ELSE Assign(s, 0, 1, -1, 0, "insert", -1)

main_mutate(s) ==
    IF s.endpoint = "up" THEN main_upvote_mutate(s) ELSE main_downvote_mutate(s)

\* db.commit() of a session that holds no changed Agent: UPDATE posts and
\* the statement on votes
main_commit(d, s, held) ==
    IF UniqueViolation(d, s) \/ StaleUpdate(d, s)
    THEN [ok |-> FALSE, db |-> d]
    ELSE [ok |-> TRUE,
          db |-> [d EXCEPT !.posts = [@ EXCEPT ![s.post_id] = WritePost(@, s)],
                           !.votes = WriteVotes(d, s, held)]]

\* the outcomes of a vote route of main.py run from its first line to its
\* return on database d
MainVoteOutcomes(d, v, p, e) ==
    LET s2 == query_post(d, require_agent(d, NewSession(v, p, e)))
    IN IF s2.post = NoPost
       THEN {[db |-> d, response |-> NotFound, call |-> Completed(s2, FALSE),
              created |-> <<>>]}
       ELSE {LET s4 == [main_mutate(load_owner(d, [s2 EXCEPT !.existing = row]))
                           EXCEPT !.attempts = @ + 1]
                 c == main_commit(d, s4, {})
             IN IF c.ok
                THEN [db |-> c.db, response |-> VoteResult(c.db, p),
                      call |-> Completed(s4, TRUE),
                      created |-> create_task_post_vote(c.db, p)]
                ELSE [db |-> d, response |-> ServerError,
                      call |-> Completed(s4, FALSE), created |-> <<>>]
             : row \in FirstVote(d, v, p)}

\* POST /api/v1/posts/{post_id}/upvote and /downvote as registered on app
main_vote_post(v, p, e) ==
    /\ \E o \in MainVoteOutcomes(db, v, p, e) :
          db' = o.db /\ response' = o.response /\ last' = o.call
          /\ outbox' = o.created
    /\ UNCHANGED <<sess, started, comments, feed, hub>>

\* one server process that serves the vote routes of main.py
NextMain ==
    \E v \in Agents, p \in RequestedIds, e \in {"up", "down"} : main_vote_post(v, p, e)

SpecMain == Init /\ [][NextMain]_vars

\* ------------------------------------- one statement at a time (SpecConc)
\* the Vote rows the other open sessions hold as `existing`
HeldRows(w) == {sess[x].existing : x \in Workers \ {w}} \ {NoRow}

\* a request arrives and is served by a free worker (the workers are
\* alike: the first free one takes it); agent = require_agent(...)
Start(w, v, p, e) ==
    /\ sess[w].pc = "idle"
    /\ \A x \in Workers : x < w => sess[x].pc # "idle"
    /\ started < MaxRequests
    /\ sess' = [sess EXCEPT ![w] =
                  [require_agent(db, NewSession(v, p, e)) EXCEPT !.pc = "post"]]
    /\ started' = started + 1
    /\ UNCHANGED <<db, response, last, outbox, comments, feed, hub>>

\* post = db.query(Post)...first(); if not post: raise HTTPException(404)
LoadPost(w) ==
    /\ sess[w].pc = "post"
    /\ LET s == query_post(db, sess[w])
       IN IF s.post = NoPost
          THEN /\ sess' = [sess EXCEPT ![w] = IdleSession]
               /\ response' = NotFound
               /\ last' = Completed(s, FALSE)
               /\ outbox' = <<>>
          ELSE /\ sess' = [sess EXCEPT ![w] = [s EXCEPT !.pc = "vote"]]
               /\ UNCHANGED <<response, last, outbox>>
    /\ UNCHANGED <<db, started, comments, feed, hub>>

\* existing = db.query(Vote)...first()
LoadVote(w) ==
    /\ sess[w].pc = "vote"
    /\ \E row \in FirstVote(db, sess[w].voter, sess[w].post_id) :
          sess' = [sess EXCEPT ![w] = [@ EXCEPT !.existing = row, !.pc = "mutate"]]
    /\ UNCHANGED <<db, response, last, outbox, started, comments, feed, hub>>

\* if existing: ... else: ... (post.agent is loaded by its first use)
Mutate(w) ==
    /\ sess[w].pc = "mutate"
    /\ sess' = [sess EXCEPT ![w] =
                  [mutate(load_owner(db, sess[w])) EXCEPT !.pc = "commit"]]
    /\ UNCHANGED <<db, response, last, outbox, started, comments, feed, hub>>

\* db.commit(); an exception ends the request with a 500
Commit(w) ==
    /\ sess[w].pc = "commit"
    /\ LET s == [sess[w] EXCEPT !.attempts = @ + 1]
           c == commit(db, s, HeldRows(w))
       IN /\ db' = c.db
          /\ IF c.ok
             THEN /\ sess' = [sess EXCEPT ![w] = [s EXCEPT !.pc = "respond"]]
                  /\ UNCHANGED <<response, last, outbox>>
             ELSE /\ sess' = [sess EXCEPT ![w] = IdleSession]
                  /\ response' = ServerError
                  /\ last' = Completed(s, FALSE)
                  /\ outbox' = <<>>
    /\ UNCHANGED <<started, comments, feed, hub>>

\* asyncio.create_task(broadcast_post_vote(...)); return {"score": ...}:
\* post was expired by the commit and is read again from its row
Respond(w) ==
    /\ sess[w].pc = "respond"
    /\ sess' = [sess EXCEPT ![w] = IdleSession]
    /\ response' = VoteResult(db, sess[w].post_id)
    /\ last' = Completed(sess[w], TRUE)
    /\ outbox' = create_task_post_vote(db, sess[w].post_id)
    /\ UNCHANGED <<db, started, comments, feed, hub>>

NextConc ==
    \E w \in Workers :
        \/ \E v \in Agents, p \in RequestedIds, e \in {"up", "down"} : Start(w, v, p, e)
        \/ LoadPost(w)
        \/ LoadVote(w)
        \/ Mutate(w)
        \/ Commit(w)
        \/ Respond(w)

SpecConc == Init /\ [][NextConc]_vars

\* ------------------- the vote handlers as coroutines of one event loop
\* The statements of a vote handler after which the coroutine can be
\* suspended: upvote_post and downvote_post contain no await (the queries
\* and db.commit() are blocking calls of a synchronous Session,
\* asyncio.create_task does not suspend its caller).
AwaitPoints_Commit == {"commit"}
AwaitPoints == {}

\* the loop runs another coroutine only when the running one is suspended
\* or has returned
Suspended(w) == sess[w].pc \in {"idle"} \cup AwaitPoints
OnLoop(w) == \A x \in Workers \ {w} : Suspended(x)

NextLoop ==
    \E w \in Workers :
        /\ OnLoop(w)
        /\ \/ \E v \in Agents, p \in RequestedIds, e \in {"up", "down"} : Start(w, v, p, e)
           \/ LoadPost(w)
           \/ LoadVote(w)
           \/ Mutate(w)
           \/ Commit(w)
           \/ Respond(w)

SpecLoop == Init /\ [][NextLoop]_vars

\* ------------------------------------- the event loop of one process (SpecHub)
\* A step runs one coroutine from a suspension point to the next one. The
\* bodies of `async with self._lock` contain no await, so the coroutine
\* that holds the lock is the one that runs next: nothing else is scheduled
\* until it has released the lock.
LoopFree == lock = NoHolder

RECURSIVE SumLen(_, _)
SumLen(f, S) ==
    IF S = {} THEN 0
    ELSE LET x == CHOOSE y \in S : TRUE IN Len(f[x]) + SumLen(f, S \ {x})

\* the texts the clients have sent in all
TextsSent == SumLen([c \in Connections |-> ws[c].sent], Connections)

\* the loop takes a request or a text while the run has room for one
Accepting == LoopFree /\ started + TextsSent < MaxRequests

TaskIds == DOMAIN tasks

\* asyncio.create_task(coro): the task is appended to the loop's queue; its
\* coroutine has not started
NewTask(call) ==
    [pc |-> "created", call |-> call, message |-> NoMessage,
     connections |-> {}, results |-> <<>>]

\* a task whose coroutine has returned: the loop keeps nothing of it
Finished ==
    [pc |-> "done", call |-> [type |-> "", data |-> <<>>], message |-> NoMessage,
     connections |-> {}, results |-> <<>>]

Schedule(queue, calls) == queue \o [i \in DOMAIN calls |-> NewTask(calls[i])]

\* class EventType
EventType == {"new_post", "post_vote", "new_comment", "comment_vote"}

\* broadcast_post_vote / broadcast_new_post / broadcast_new_comment: the
\* envelope {"type": ..., "data": ..., "timestamp": datetime.utcnow().isoformat()}
Envelope(call, now) ==
    [type |-> call.type, data |-> call.data, timestamp |-> isoformat(now)]

\* a faulty variant of BroadcastStart: the loop starts the tasks in any order
BroadcastStart_AnyOrder(t) ==
    /\ LoopFree
    /\ tasks[t].pc = "created"
    /\ tasks' = [tasks EXCEPT ![t].pc = "snapshot",
                              ![t].message = Envelope(tasks[t].call, t)]
    /\ lock' = <<"broadcast", t>>
    /\ UNCHANGED <<db, response, last, outbox, sess, started, comments, feed,
                   active_connections, ws>>

\* the first run of a broadcast task: the envelope is built, then
\* manager.broadcast(message) enters `async with self._lock` (tasks start in
\* the order of their creation)
BroadcastStart(t) ==
    /\ LoopFree
    /\ tasks[t].pc = "created"
    /\ \A u \in TaskIds : u < t => tasks[u].pc # "created"
    /\ tasks' = [tasks EXCEPT ![t].pc = "snapshot",
                              ![t].message = Envelope(tasks[t].call, t)]
    /\ lock' = <<"broadcast", t>>
    /\ UNCHANGED <<db, response, last, outbox, sess, started, comments, feed,
                   active_connections, ws>>

\* a faulty variant of BroadcastSnapshot: the sends are started inside
\* `async with self._lock`
BroadcastSnapshot_SendsUnderLock(t) ==
    /\ lock = <<"broadcast", t>>
    /\ tasks[t].pc = "snapshot"
    /\ tasks' = [tasks EXCEPT ![t] =
                    IF active_connections = {} THEN Finished
                    ELSE [@ EXCEPT !.connections = active_connections,
                                   !.results = [c \in active_connections |-> "pending"],
                                   !.pc = "gather"]]
    /\ lock' = IF active_connections = {} THEN NoHolder ELSE lock
    /\ UNCHANGED <<db, response, last, outbox, sess, started, comments, feed,
                   active_connections, ws>>

\* connections = list(self.active_connections); the lock is released; with
\* no connection the broadcast returns, otherwise data = json.dumps(message)
\* and asyncio.gather starts one send_text per connection
BroadcastSnapshot(t) ==
    /\ lock = <<"broadcast", t>>
    /\ tasks[t].pc = "snapshot"
    /\ tasks' = [tasks EXCEPT ![t] =
                    IF active_connections = {} THEN Finished
                    ELSE [@ EXCEPT !.connections = active_connections,
                                   !.results = [c \in active_connections |-> "pending"],
                                   !.pc = "gather"]]
    /\ lock' = NoHolder
    /\ UNCHANGED <<db, response, last, outbox, sess, started, comments, feed,
                   active_connections, ws>>

\* a faulty variant of SendReturns: the text is dropped
SendReturns_Drops(t, c) ==
    /\ LoopFree
    /\ tasks[t].pc = "gather"
    /\ c \in tasks[t].connections
    /\ tasks[t].results[c] = "pending"
    /\ tasks' = [tasks EXCEPT ![t].results[c] = "sent"]
    /\ UNCHANGED <<db, response, last, outbox, sess, started, comments, feed,
                   active_connections, lock, ws>>

\* a send of an earlier broadcast to connection c is outstanding. gather
\* schedules the sends of a broadcast when the broadcast reaches it, the
\* loop runs them in that order, and each writes its frame to the
\* connection's transport, which keeps the order of the writes.
EarlierSend(t, c) ==
    \E u \in TaskIds :
        /\ u < t
        /\ tasks[u].pc = "gather"
        /\ c \in tasks[u].connections
        /\ tasks[u].results[c] = "pending"

\* connection.send_text(data) returns: the text is on its way to the client
\* (a client that has gone away does not get it); the frames of one
\* connection leave in the order of their sends
SendReturns(t, c) ==
    /\ LoopFree
    /\ tasks[t].pc = "gather"
    /\ c \in tasks[t].connections
    /\ tasks[t].results[c] = "pending"
    /\ ~EarlierSend(t, c)
    /\ tasks' = [tasks EXCEPT ![t].results[c] = "sent"]
    /\ ws' = [ws EXCEPT ![c].pushed =
                 IF ws[c].client = "open" THEN Append(@, tasks[t].message) ELSE @]
    /\ UNCHANGED <<db, response, last, outbox, sess, started, comments, feed,
                   active_connections, lock>>

\* connection.send_text(data) raises: the peer is gone or the endpoint of
\* the connection has ended; gather(return_exceptions=True) keeps the exception
SendRaises(t, c) ==
    /\ LoopFree
    /\ tasks[t].pc = "gather"
    /\ c \in tasks[t].connections
    /\ tasks[t].results[c] = "pending"
    /\ ws[c].client # "open"
    /\ tasks' = [tasks EXCEPT ![t].results[c] = "raised"]
    /\ UNCHANGED <<db, response, last, outbox, sess, started, comments, feed,
                   active_connections, lock, ws>>

\* a faulty variant of dead_connections: the exceptions are not looked at
dead_connections_None(task) == {}

\* dead_connections: the connections of the snapshot whose result is an Exception
dead_connections(task) == {c \in task.connections : task.results[c] = "raised"}

\* gather returns when every send has returned or raised; if dead_connections
\* the broadcast enters `async with self._lock` again
BroadcastGathered(t) ==
    /\ LoopFree
    /\ tasks[t].pc = "gather"
    /\ \A c \in tasks[t].connections : tasks[t].results[c] # "pending"
    /\ IF dead_connections(tasks[t]) = {}
       THEN /\ tasks' = [tasks EXCEPT ![t] = Finished]
            /\ UNCHANGED lock
       ELSE /\ tasks' = [tasks EXCEPT ![t].pc = "discard"]
            /\ lock' = <<"broadcast", t>>
    /\ UNCHANGED <<db, response, last, outbox, sess, started, comments, feed,
                   active_connections, ws>>

\* a faulty variant of BroadcastDiscard: the failed sends are reported to
\* the request that published the event
BroadcastDiscard_FailsRequest(t) ==
    /\ lock = <<"broadcast", t>>
    /\ tasks[t].pc = "discard"
    /\ active_connections' = active_connections \ dead_connections(tasks[t])
    /\ tasks' = [tasks EXCEPT ![t] = Finished]
    /\ lock' = NoHolder
    /\ response' = ServerError
    /\ UNCHANGED <<db, last, outbox, sess, started, comments, feed, ws>>

\* for connection in dead_connections: self.active_connections.discard(connection)
BroadcastDiscard(t) ==
    /\ lock = <<"broadcast", t>>
    /\ tasks[t].pc = "discard"
    /\ active_connections' = active_connections \ dead_connections(tasks[t])
    /\ tasks' = [tasks EXCEPT ![t] = Finished]
    /\ lock' = NoHolder
    /\ UNCHANGED <<db, response, last, outbox, sess, started, comments, feed, ws>>

\* ------------------------------------------- the handlers on the loop
BadRequest == [status |-> 400, score |-> 0, upvotes |-> 0, downvotes |-> 0]

\* a faulty variant of Refused: the broadcast is scheduled before db.commit()
Refused_StillPublishes(d, o) ==
    [db |-> d, response |-> ServerError, call |-> [o.call EXCEPT !.op = "none"],
     created |-> o.created]

\* db.commit() raises because the database does not answer: nothing is
\* written, the exception leaves the handler before its create_task
Refused(d, o) ==
    [db |-> d, response |-> ServerError, call |-> [o.call EXCEPT !.op = "none"],
     created |-> <<>>]

\* a faulty variant of Serve: the handler awaits the broadcasts instead of
\* scheduling them, it returns when no send is outstanding
Serve_AwaitsBroadcast(o, rows) ==
    /\ \A t \in TaskIds : tasks[t].pc = "done"
    /\ db' = o.db
    /\ response' = o.response
    /\ last' = o.call
    /\ outbox' = o.created
    /\ comments' = rows
    /\ tasks' = Schedule(tasks, o.created)
    /\ started' = started + 1
    /\ UNCHANGED <<sess, feed, active_connections, lock, ws>>

\* a handler runs from its first line to its return without a suspension
\* point; the tasks it created wait on the loop
Serve(o, rows) ==
    /\ db' = o.db
    /\ response' = o.response
    /\ last' = o.call
    /\ outbox' = o.created
    /\ comments' = rows
    /\ tasks' = Schedule(tasks, o.created)
    /\ started' = started + 1
    /\ UNCHANGED <<sess, feed, active_connections, lock, ws>>

\* POST /posts/{post_id}/upvote and /downvote
vote_post(v, p, e, answers) ==
    /\ Accepting
    /\ \E o \in VoteOutcomes(db, v, p, e) :
          Serve(IF answers \/ o.call.op = "none" THEN o ELSE Refused(db, o), comments)

\* the gain_loss_pct a new post may report
PostGains == {None, Some(-5), Some(4)}

\* a faulty variant of TradeStats: a reported outcome is paid in karma
TradeStats_PaysKarma(d, a, gain) ==
    IF gain = None THEN d
    ELSE [d EXCEPT !.agents[a].total_trades = @ + 1,
                   !.agents[a].total_gain_loss_pct = @ + gain[1],
                   !.karma[a] = @ + 1]

\* a faulty variant of TradeStats: the posts are counted before the flush,
\* without the new one
TradeStats_BeforeFlush(d, a, gain) ==
    IF gain = None THEN d
    ELSE LET mine == {p \in DOMAIN d.posts \ {Cardinality(DOMAIN d.posts)} :
                         d.posts[p].agent_id = a}
             total_pnl_posts == Cardinality({p \in mine : d.gain_loss_pct[p] # None})
             winning_trades ==
                 Cardinality({p \in mine : d.gain_loss_pct[p] # None
                                             /\ d.gain_loss_pct[p][1] > 0})
         IN [d EXCEPT !.agents[a].total_trades = @ + 1,
                      !.agents[a].total_gain_loss_pct = @ + gain[1],
                      !.agents[a].win_rate =
                          IF total_pnl_posts > 0
                          THEN Quotient(winning_trades * 100, total_pnl_posts)
                          ELSE Quotient(0, 1)]

\* "Update agent stats if P&L is provided": total_trades and
\* total_gain_loss_pct grow by the post's outcome; after db.flush() the
\* posts of the agent that report an outcome, the new one included, are
\* counted and win_rate is the share of the positive ones, in percent
TradeStats(d, a, gain) ==
    IF gain = None THEN d
    ELSE LET mine == {p \in DOMAIN d.posts : d.posts[p].agent_id = a}
             total_pnl_posts == Cardinality({p \in mine : d.gain_loss_pct[p] # None})
             winning_trades ==
                 Cardinality({p \in mine : d.gain_loss_pct[p] # None
                                             /\ d.gain_loss_pct[p][1] > 0})
         IN [d EXCEPT !.agents[a].total_trades = @ + 1,
                      !.agents[a].total_gain_loss_pct = @ + gain[1],
                      !.agents[a].win_rate =
                          IF total_pnl_posts > 0
                          THEN Quotient(winning_trades * 100, total_pnl_posts)
                          ELSE Quotient(0, 1)]

\* create_post: the submolt must exist (400); the Post of the caller is
\* added with counters 0, the caller's trade statistics are updated and
\* both are committed; broadcast_new_post is scheduled
CreatePostOutcome(d, a, submolt, gain) ==
    IF ~submolt
    THEN [db |-> d, response |-> BadRequest, created |-> <<>>,
          call |-> [voter |-> a, post_id |-> 0, endpoint |-> "create_post",
                    op |-> "none", attempts |-> 0]]
    ELSE LET id == Cardinality(DOMAIN d.posts) + 1
             d1 == [d EXCEPT !.posts = @ @@ (id :> NewPost(a)),
                             !.gain_loss_pct = @ @@ (id :> gain)]
             d2 == TradeStats(d1, a, gain)
         IN [db |-> d2,
             response |-> [status |-> 200, score |-> 0, upvotes |-> 0, downvotes |-> 0],
             created |-> <<broadcast_new_post(d2, id)>>,
             call |-> [voter |-> a, post_id |-> id, endpoint |-> "create_post",
                       op |-> "insert", attempts |-> 1]]

\* POST /posts
create_post(a, submolt, gain, answers) ==
    /\ Accepting
    /\ Cardinality(DOMAIN db.posts) < MaxPosts
    /\ LET o == CreatePostOutcome(db, a, submolt, gain)
       IN Serve(IF answers \/ o.call.op = "none" THEN o ELSE Refused(db, o), comments)

\* the ids a request may name as parent_id (0: none)
ParentIds == 0..(MaxComments - 1)

\* create_comment: the post must exist (404) and a parent must be a comment
\* of the same post (400); the Comment is added and committed;
\* broadcast_new_comment is scheduled
CreateCommentOutcome(d, rows, a, p, parent) ==
    LET call(op, n) == [voter |-> a, post_id |-> p, endpoint |-> "create_comment",
                        op |-> op, attempts |-> n]
        row == [id |-> Cardinality(rows) + 1, post_id |-> p, agent_id |-> a,
                parent_id |-> parent]
    IN IF p \notin DOMAIN d.posts
       THEN [db |-> d, response |-> NotFound, created |-> <<>>,
             call |-> call("none", 0), comments |-> rows]
       ELSE IF parent # 0 /\ ~\E r \in rows : r.id = parent /\ r.post_id = p
       THEN [db |-> d, response |-> BadRequest, created |-> <<>>,
             call |-> call("none", 0), comments |-> rows]
       ELSE [db |-> d,
             response |-> [status |-> 200, score |-> 0, upvotes |-> 0, downvotes |-> 0],
             created |-> <<broadcast_new_comment(row)>>,
             call |-> call("insert", 1), comments |-> rows \cup {row}]

\* POST /posts/{post_id}/comments
create_comment(a, p, parent, answers) ==
    /\ Accepting
    /\ Cardinality(comments) < MaxComments
    /\ LET o == CreateCommentOutcome(db, comments, a, p, parent)
       IN IF answers \/ o.call.op = "none"
          THEN Serve(o, o.comments)
          ELSE Serve(Refused(db, o), comments)

\* ---------------------------------------------- websocket_endpoint (/ws)
\* what the opening request carries: a foreign origin, no token, a token
\* that is no agent's api_key, or an allowed origin with a valid key
Handshakes == {"origin", "no_token", "bad_key", "ok"}

\* (the viewers are alike: they are numbered in the order they arrive)
\* the checks before manager.connect: a refused viewer is closed (4003 or
\* 1008) and the endpoint returns; otherwise await websocket.accept()
WsOpen(c, handshake) ==
    /\ LoopFree
    /\ ws[c].pc = "closed"
    /\ \A x \in Connections : x < c => ws[x].pc # "closed"
    /\ ws' = [ws EXCEPT ![c] =
                 IF handshake = "ok"
                 THEN [@ EXCEPT !.pc = "accept", !.client = "open"]
                 ELSE [@ EXCEPT !.pc = "ended", !.client = "closed"]]
    /\ UNCHANGED <<db, response, last, outbox, sess, started, comments, feed,
                   active_connections, lock, tasks>>

\* manager.connect: websocket.accept() has returned, `async with self._lock`
WsAccepted(c) ==
    /\ LoopFree
    /\ ws[c].pc = "accept"
    /\ ws[c].client = "open"
    /\ ws' = [ws EXCEPT ![c].pc = "add"]
    /\ lock' = <<"connect", c>>
    /\ UNCHANGED <<db, response, last, outbox, sess, started, comments, feed,
                   active_connections, tasks>>

\* websocket.accept() raises (the client went away): manager.connect is
\* outside the try block, the endpoint ends
WsAcceptRaises(c) ==
    /\ LoopFree
    /\ ws[c].pc = "accept"
    /\ ws[c].client = "closed"
    /\ ws' = [ws EXCEPT ![c].pc = "ended"]
    /\ UNCHANGED <<db, response, last, outbox, sess, started, comments, feed,
                   active_connections, lock, tasks>>

\* self.active_connections.add(websocket)
WsAdd(c) ==
    /\ lock = <<"connect", c>>
    /\ ws[c].pc = "add"
    /\ active_connections' = active_connections \cup {c}
    /\ ws' = [ws EXCEPT ![c].pc = "receive"]
    /\ lock' = NoHolder
    /\ UNCHANGED <<db, response, last, outbox, sess, started, comments, feed, tasks>>

\* a faulty variant of WsReceive: every text is answered
WsReceive_AnswersAll(c) ==
    /\ LoopFree
    /\ ws[c].pc = "receive"
    /\ ws[c].inbox # <<>>
    /\ LET data == Head(ws[c].inbox)
       IN IF data = "disconnect"
          THEN /\ ws' = [ws EXCEPT ![c].inbox = Tail(@), ![c].pc = "discard"]
               /\ lock' = <<"disconnect", c>>
          ELSE /\ ws' = [ws EXCEPT ![c].inbox = Tail(@), ![c].pc = "pong"]
               /\ UNCHANGED lock
    /\ UNCHANGED <<db, response, last, outbox, sess, started, comments, feed,
                   active_connections, tasks>>

\* a faulty variant of WsReceive: WebSocketDisconnect is swallowed, the
\* endpoint goes on receiving
WsReceive_SwallowsDisconnect(c) ==
    /\ LoopFree
    /\ ws[c].pc = "receive"
    /\ ws[c].inbox # <<>>
    /\ ws' = [ws EXCEPT ![c].inbox = Tail(@),
                        ![c].pc = IF Head(ws[c].inbox) = "ping" THEN "pong" ELSE "receive"]
    /\ UNCHANGED <<db, response, last, outbox, sess, started, comments, feed,
                   active_connections, lock, tasks>>

\* data = await websocket.receive_text(): "ping" is answered, any other
\* text is dropped, WebSocketDisconnect breaks the loop and the finally
\* clause calls manager.disconnect (`async with self._lock`)
WsReceive(c) ==
    /\ LoopFree
    /\ ws[c].pc = "receive"
    /\ ws[c].inbox # <<>>
    /\ LET data == Head(ws[c].inbox)
       IN IF data = "disconnect"
          THEN /\ ws' = [ws EXCEPT ![c].inbox = Tail(@), ![c].pc = "discard"]
               /\ lock' = <<"disconnect", c>>
          ELSE /\ ws' = [ws EXCEPT ![c].inbox = Tail(@),
                                    ![c].pc = IF data = "ping" THEN "pong" ELSE "receive"]
               /\ UNCHANGED lock
    /\ UNCHANGED <<db, response, last, outbox, sess, started, comments, feed,
                   active_connections, tasks>>

\* await websocket.send_text("pong") returns
WsPong(c) ==
    /\ LoopFree
    /\ ws[c].pc = "pong"
    /\ ws' = [ws EXCEPT ![c].pc = "receive",
                        ![c].pushed = IF ws[c].client = "open"
                                      THEN Append(@, TextFrame("pong")) ELSE @]
    /\ UNCHANGED <<db, response, last, outbox, sess, started, comments, feed,
                   active_connections, lock, tasks>>

\* await websocket.send_text("pong") raises: except Exception: pass, then
\* the finally clause calls manager.disconnect
WsPongRaises(c) ==
    /\ LoopFree
    /\ ws[c].pc = "pong"
    /\ ws[c].client # "open"
    /\ ws' = [ws EXCEPT ![c].pc = "discard"]
    /\ lock' = <<"disconnect", c>>
    /\ UNCHANGED <<db, response, last, outbox, sess, started, comments, feed,
                   active_connections, tasks>>

\* a faulty variant of WsDiscard: the endpoint ends without manager.disconnect
WsDiscard_Keeps(c) ==
    /\ lock = <<"disconnect", c>>
    /\ ws[c].pc = "discard"
    /\ ws' = [ws EXCEPT ![c].pc = "ended"]
    /\ lock' = NoHolder
    /\ UNCHANGED <<db, response, last, outbox, sess, started, comments, feed, tasks,
                   active_connections>>

\* manager.disconnect: self.active_connections.discard(websocket)
WsDiscard(c) ==
    /\ lock = <<"disconnect", c>>
    /\ ws[c].pc = "discard"
    /\ active_connections' = active_connections \ {c}
    /\ ws' = [ws EXCEPT ![c].pc = "ended"]
    /\ lock' = NoHolder
    /\ UNCHANGED <<db, response, last, outbox, sess, started, comments, feed, tasks>>

\* ------------------------------------------------------------ the clients
ClientTexts == {"ping", "hello"}

\* a connected viewer sends a text
ClientSends(c, text) ==
    /\ Accepting
    /\ ws[c].client = "open"
    /\ ws[c].pc \in {"receive", "pong"}
    /\ ws' = [ws EXCEPT ![c].inbox = Append(@, text), ![c].sent = Append(@, text)]
    /\ UNCHANGED <<db, response, last, outbox, sess, started, comments, feed,
                   active_connections, lock, tasks>>

\* a viewer goes away: its receive_text raises WebSocketDisconnect
ClientCloses(c) ==
    /\ LoopFree
    /\ ws[c].client = "open"
    /\ ws' = [ws EXCEPT ![c].client = "closed", ![c].inbox = Append(@, "disconnect")]
    /\ UNCHANGED <<db, response, last, outbox, sess, started, comments, feed,
                   active_connections, lock, tasks>>

\* the handlers of one process and the tasks they schedule, no viewer
\* being connected
NextWrite ==
    \/ \E v \in Agents, p \in RequestedIds, e \in {"up", "down"}, answers \in BOOLEAN :
          vote_post(v, p, e, answers)
    \/ \E a \in Agents, submolt \in BOOLEAN, gain \in PostGains, answers \in BOOLEAN :
          create_post(a, submolt, gain, answers)
    \/ \E a \in Agents, p \in RequestedIds, parent \in ParentIds, answers \in BOOLEAN :
          create_comment(a, p, parent, answers)
    \/ \E t \in TaskIds :
          \/ BroadcastStart(t)
          \/ BroadcastSnapshot(t)

SpecWrite == Init /\ [][NextWrite]_vars

\* the ids the vote requests name while viewers are connected: one post and
\* one id without a row
WatchedIds == {1, Len(PostOwners) + 1}

\* the vote handlers, the broadcasts and the viewers
NextHub ==
    \/ \E v \in Agents, p \in WatchedIds, e \in {"up", "down"}, answers \in BOOLEAN :
          vote_post(v, p, e, answers)
    \/ \E t \in TaskIds :
          \/ BroadcastStart(t)
          \/ BroadcastSnapshot(t)
          \/ BroadcastGathered(t)
          \/ BroadcastDiscard(t)
          \/ \E c \in Connections : SendReturns(t, c) \/ SendRaises(t, c)
    \/ \E c \in Connections :
          \/ \E handshake \in Handshakes : WsOpen(c, handshake)
          \/ WsAccepted(c)
          \/ WsAcceptRaises(c)
          \/ WsAdd(c)
          \/ WsReceive(c)
          \/ WsPong(c)
          \/ WsPongRaises(c)
          \/ WsDiscard(c)
          \/ \E text \in ClientTexts : ClientSends(c, text)
          \/ ClientCloses(c)

SpecHub == Init /\ [][NextHub]_vars

\* The event loop runs every coroutine that is ready: a task that was
\* created, a coroutine that holds or can take the lock, an endpoint whose
\* receive_text or pong has an outcome. When a send_text of a broadcast
\* returns is up to the client: a send may stay outstanding for ever.
LoopStep ==
    \/ \E t \in TaskIds :
          \/ BroadcastStart(t)
          \/ BroadcastSnapshot(t)
          \/ BroadcastGathered(t)
          \/ BroadcastDiscard(t)
    \/ \E c \in Connections :
          \/ WsAccepted(c)
          \/ WsAcceptRaises(c)
          \/ WsAdd(c)
          \/ WsReceive(c)
          \/ WsPong(c)
          \/ WsPongRaises(c)
          \/ WsDiscard(c)

SpecHubFair == SpecHub /\ WF_vars(LoopStep)

\* ===================================================== /api/v1/agents/...
\* agent_id: int = Path(..., ge=1, ...): one requested id has no row
RequestedAgents == Agents \cup {NumAgents + 1}

\* what a request on /agents leaves in `last`
AgentCall(a, endpoint, op) ==
    [voter |-> a, post_id |-> 0, endpoint |-> endpoint, op |-> op,
     attempts |-> IF op = "none" THEN 0 ELSE 1]

\* AgentResponse(id=agent.id, name=agent.name, ..., karma=agent.karma, ...)
AgentResult(d, a) ==
    [status |-> 200, id |-> a, name |-> d.agents[a].name,
     description |-> d.agents[a].description, avatar_url |-> d.agents[a].avatar_url,
     karma |-> d.karma[a], win_rate |-> d.agents[a].win_rate,
     total_trades |-> d.agents[a].total_trades]

\* {"message": ..., "follower_count": target_agent.follower_count}
FollowResult(d, agent_id) ==
    [status |-> 200, follower_count |-> d.agents[agent_id].follower_count]

Follow(follower, following) == [follower_id |-> follower, following_id |-> following]

\* follow_agent: following oneself is refused (400), the target must exist
\* (404) and must not be followed already (400); the Follow row is added
\* and both counters grow by one
FollowOutcome(d, a, agent_id) ==
    LET none(r) == [db |-> d, response |-> r, created |-> <<>>,
                    call |-> AgentCall(a, "follow_agent", "none")]
    IN IF a = agent_id THEN none(BadRequest)
       ELSE IF agent_id \notin DOMAIN d.agents THEN none(NotFound)
       ELSE IF Follow(a, agent_id) \in d.follows THEN none(BadRequest)
       ELSE LET d2 == [d EXCEPT !.follows = @ \cup {Follow(a, agent_id)},
                                !.agents[agent_id].follower_count = @ + 1,
                                !.agents[a].following_count = @ + 1]
            IN [db |-> d2, response |-> FollowResult(d2, agent_id), created |-> <<>>,
                call |-> AgentCall(a, "follow_agent", "insert")]

\* max(0, (count or 1) - 1)
CountDown(count) ==
    LET less == (IF count = 0 THEN 1 ELSE count) - 1
    IN IF less > 0 THEN less ELSE 0

\* unfollow_agent: the target must exist (404) and be followed (400); the
\* Follow row is deleted and both counters are counted down
UnfollowOutcome(d, a, agent_id) ==
    LET none(r) == [db |-> d, response |-> r, created |-> <<>>,
                    call |-> AgentCall(a, "unfollow_agent", "none")]
    IN IF agent_id \notin DOMAIN d.agents THEN none(NotFound)
       ELSE IF Follow(a, agent_id) \notin d.follows THEN none(BadRequest)
       ELSE LET d1 == [d EXCEPT !.follows = @ \ {Follow(a, agent_id)},
                                !.agents[agent_id].follower_count = CountDown(@)]
                d2 == [d1 EXCEPT !.agents[a].following_count = CountDown(@)]
            IN [db |-> d2, response |-> FollowResult(d2, agent_id), created |-> <<>>,
                call |-> AgentCall(a, "unfollow_agent", "delete")]

\* what a PATCH /agents/me may carry: every field is optional
Names == {None, Some("renamed")}
Descriptions == {None, Some("text")}
AvatarUrls == {None, Some("https://")}

\* update_me: the fields that are given are assigned; db.commit();
\* db.refresh(agent)
UpdateOutcome(d, a, name, description, avatar_url) ==
    LET d2 == [d EXCEPT !.agents[a].name = IF name # None THEN name[1] ELSE @,
                        !.agents[a].description =
                            IF description # None THEN description ELSE @,
                        !.agents[a].avatar_url =
                            IF avatar_url # None THEN avatar_url ELSE @]
    IN [db |-> d2, response |-> AgentResult(d2, a), created |-> <<>>,
        call |-> AgentCall(a, "update_me", "update")]

\* POST /agents/{agent_id}/follow
follow_agent(a, agent_id, answers) ==
    /\ Accepting
    /\ LET o == FollowOutcome(db, a, agent_id)
       IN Serve(IF answers \/ o.call.op = "none" THEN o ELSE Refused(db, o), comments)

\* DELETE /agents/{agent_id}/follow
unfollow_agent(a, agent_id, answers) ==
    /\ Accepting
    /\ LET o == UnfollowOutcome(db, a, agent_id)
       IN Serve(IF answers \/ o.call.op = "none" THEN o ELSE Refused(db, o), comments)

\* PATCH /agents/me
update_me(a, name, description, avatar_url, answers) ==
    /\ Accepting
    /\ LET o == UpdateOutcome(db, a, name, description, avatar_url)
       IN Serve(IF answers THEN o ELSE Refused(db, o), comments)

\* GET /agents/me: the caller's row is returned, nothing is written
get_me(a) ==
    /\ Accepting
    /\ Serve([db |-> db, response |-> AgentResult(db, a), created |-> <<>>,
              call |-> AgentCall(a, "get_me", "none")], comments)

\* GET /agents/{agent_id}: 404 without a row; nothing is written
get_agent(agent_id) ==
    /\ Accepting
    /\ Serve([db |-> db,
              response |-> IF agent_id \in DOMAIN db.agents
                           THEN AgentResult(db, agent_id) ELSE NotFound,
              created |-> <<>>, call |-> AgentCall(0, "get_agent", "none")], comments)

\* the handlers that write an agent's row or read it, and the tasks they
\* schedule, no viewer being connected
NextAgents ==
    \/ \E v \in Agents, p \in WatchedIds, e \in {"up", "down"}, answers \in BOOLEAN :
          vote_post(v, p, e, answers)
    \/ \E a \in Agents, submolt \in BOOLEAN, gain \in PostGains, answers \in BOOLEAN :
          create_post(a, submolt, gain, answers)
    \/ \E a \in Agents, p \in WatchedIds, parent \in ParentIds, answers \in BOOLEAN :
          create_comment(a, p, parent, answers)
    \/ \E a \in Agents, agent_id \in RequestedAgents, answers \in BOOLEAN :
          \/ follow_agent(a, agent_id, answers)
          \/ unfollow_agent(a, agent_id, answers)
    \/ \E a \in Agents, name \in Names, description \in Descriptions,
          avatar_url \in AvatarUrls, answers \in BOOLEAN :
          update_me(a, name, description, avatar_url, answers)
    \/ \E a \in Agents : get_me(a)
    \/ \E agent_id \in RequestedAgents : get_agent(agent_id)
    \/ \E t \in TaskIds :
          \/ BroadcastStart(t)
          \/ BroadcastSnapshot(t)

SpecAgents == Init /\ [][NextAgents]_vars

\* ======================================================= GET /api/v1/posts
\* Time is counted in ticks of 3 minutes (Post.created_at and utcnow()), so
\* that 0.1 hour is MinAgeTicks; the order of two hot scores does not depend
\* on the unit.
MinAgeTicks == 2

\* the values of the columns of a Post a read looks at
CreatedAts == {0, 6, 8}
Scores == {-2, 0, 3, 7}
Submolts == {"general", "crypto"}
FeedRows == [created_at : CreatedAts, score : Scores, submolt : Submolts]

\* the posts tables: ids are given in the order of insertion, created_at
\* (default=datetime.utcnow) does not decrease with the id
FeedTables ==
    UNION {{rows \in [1..n -> FeedRows] :
               \A i, j \in 1..n : i < j => rows[i].created_at <= rows[j].created_at} :
           n \in 0..MaxFeedPosts}

\* the query parameters: submolt ("" is no filter), sort, limit (ge=1),
\* offset (any int), and the utcnow() of the read
SubmoltFilters == {"", "general"}
Sorts == {"hot", "new", "top"}
Limits == {1, 2}
Offsets == {-1, 0, 1}
ReadTimes == {8}

MinOf(S) == CHOOSE x \in S : \A y \in S : x <= y
MaxOf(S) == CHOOSE x \in S : \A y \in S : x >= y

\* query.filter(Post.submolt == submolt) under `if submolt:`
Filtered(rows, submolt) ==
    {id \in DOMAIN rows : submolt = "" \/ rows[id].submolt = submolt}

\* query.order_by(desc(column)).all(): the rows in non-increasing order of
\* the column; the database returns rows with equal values in any order
OrderByDesc(rows, ids, column) ==
    {s \in [1..Cardinality(ids) -> ids] :
        /\ \A i, j \in DOMAIN s : i # j => s[i] # s[j]
        /\ \A i, j \in DOMAIN s : i < j => rows[s[i]][column] >= rows[s[j]][column]}

\* a faulty variant of Limit: every row is loaded
Limit_Ignored(s, n) == s

\* .limit(n)
Limit(s, n) == SubSeq(s, 1, MinOf({n, Len(s)}))

\* .offset(n), n >= 0
Offset(s, n) == SubSeq(s, n + 1, Len(s))

\* a Python slice seq[start:stop]: a negative index counts from the end
Slice(seq, start, stop) ==
    LET n == Len(seq)
        norm(i) == IF i < 0 THEN MaxOf({i + n, 0}) ELSE MinOf({i, n})
    IN SubSeq(seq, norm(start) + 1, norm(stop))

\* a faulty variant of hot_score: the score is multiplied by the decay
hot_score_AgeRaises(p, now) ==
    LET age == MaxOf({now - p.created_at, MinAgeTicks})
        s == p.score + 1
    IN [sign |-> IF s > 0 THEN 1 ELSE IF s < 0 THEN -1 ELSE 0,
        num |-> s * s * age ^ 3, den |-> 1]

\* a faulty variant of hot_score: the score does not decay with the age
hot_score_NoDecay(p, now) ==
    LET s == p.score + 1
    IN [sign |-> IF s > 0 THEN 1 ELSE IF s < 0 THEN -1 ELSE 0,
        num |-> s * s, den |-> 1]

\* hot_score(p) = (p.score + 1) / (age_hours ** 1.5) with
\* age_hours = max((now - p.created_at).total_seconds() / 3600, 0.1). The
\* number is kept as its sign and its square (p.score + 1)^2 / age^3, a
\* fraction of integers, the age in ticks.
hot_score(p, now) ==
    LET age == MaxOf({now - p.created_at, MinAgeTicks})
        s == p.score + 1
    IN [sign |-> IF s > 0 THEN 1 ELSE IF s < 0 THEN -1 ELSE 0,
        num |-> s * s, den |-> age ^ 3]

\* x < y for two such numbers
KeyLess(x, y) ==
    IF x.sign # y.sign THEN x.sign < y.sign
    ELSE IF x.sign = 1 THEN x.num * y.den < y.num * x.den
    ELSE IF x.sign = -1 THEN x.num * y.den > y.num * x.den
    ELSE FALSE

\* a faulty variant of sort_reverse: descending, items with equal keys in the
\* reverse of the order they had
RECURSIVE sort_reverse_TiesReversed(_, _)
sort_reverse_TiesReversed(items, key) ==
    IF items = <<>> THEN <<>>
    ELSE LET x == items[Len(items)]
             rest == sort_reverse_TiesReversed(SubSeq(items, 1, Len(items) - 1), key)
             notLarger == {i \in DOMAIN rest : ~KeyLess(key[x], key[rest[i]])}
             k == IF notLarger = {} THEN Len(rest) + 1 ELSE MinOf(notLarger)
         IN SubSeq(rest, 1, k - 1) \o <<x>> \o SubSeq(rest, k, Len(rest))

\* list.sort(key=..., reverse=True): descending and stable, items with
\* equal keys keep the order they had (key: the key of every item)
RECURSIVE sort_reverse(_, _)
sort_reverse(items, key) ==
    IF items = <<>> THEN <<>>
    ELSE LET x == items[Len(items)]
             rest == sort_reverse(SubSeq(items, 1, Len(items) - 1), key)
             smaller == {i \in DOMAIN rest : KeyLess(key[rest[i]], key[x])}
             k == IF smaller = {} THEN Len(rest) + 1 ELSE MinOf(smaller)
         IN SubSeq(rest, 1, k - 1) \o <<x>> \o SubSeq(rest, k, Len(rest))

\* what a read of the table can return: status, the rows loaded for the hot
\* ranking (posts_all, ranked) and the ids of the response, in order
GetPostsOutcomes(rows, submolt, sort, limit, offset, now) ==
    LET ids == Filtered(rows, submolt)
    IN IF sort = "hot"
       THEN {[status |-> 200,
              posts_all |-> sort_reverse(Limit(s, HotWindow),
                                         [id \in ids |-> hot_score(rows[id], now)]),
              result |-> Slice(sort_reverse(Limit(s, HotWindow),
                                            [id \in ids |-> hot_score(rows[id], now)]),
                               offset, offset + limit)] :
             s \in OrderByDesc(rows, ids, "created_at")}
       ELSE LET column == IF sort = "new" THEN "created_at" ELSE "score"
                pages == {[status |-> 200, posts_all |-> <<>>,
                           result |-> Limit(Offset(s, MaxOf({offset, 0})), limit)] :
                          s \in OrderByDesc(rows, ids, column)}
                \* OFFSET -1: SQLite reads it as 0, PostgreSQL raises an error
                refused == {[status |-> 500, posts_all |-> <<>>, result |-> <<>>]}
            IN IF offset < 0 THEN pages \cup refused ELSE pages

\* GET /api/v1/posts
get_posts(submolt, sort, limit, offset, now) ==
    /\ feed.status = 0
    /\ \E o \in GetPostsOutcomes(feed.posts, submolt, sort, limit, offset, now) :
          feed' = [feed EXCEPT !.request = [endpoint |-> "get_posts", submolt |-> submolt,
                                            sort |-> sort, limit |-> limit,
                                            offset |-> offset, now |-> now],
                               !.status = o.status,
                               !.posts_all = o.posts_all,
                               !.result = o.result]
    /\ UNCHANGED <<db, response, last, outbox, sess, started, comments, hub>>

\* a posts table and one read of it
InitFeed ==
    /\ db = InitDb
    /\ response = NoResponse
    /\ last = NoCall
    /\ outbox = <<>>
    /\ sess = [w \in Workers |-> IdleSession]
    /\ started = 0
    /\ comments = {}
    /\ active_connections = {}
    /\ lock = NoHolder
    /\ tasks = <<>>
    /\ ws = [c \in Connections |-> NoEndpoint]
    /\ feed \in {[NoFeed EXCEPT !.posts = rows] : rows \in FeedTables}

NextFeed ==
    \E submolt \in SubmoltFilters, sort \in Sorts, limit \in Limits,
       offset \in Offsets, now \in ReadTimes :
          get_posts(submolt, sort, limit, offset, now)

SpecFeed == InitFeed /\ [][NextFeed]_vars

\* ============================================ GET /api/v1/tickers/...
\* A string is the sequence of its characters.

\* str.upper() over the characters that occur
UpperChar(c) == IF c = "a" THEN "A" ELSE IF c = "b" THEN "B" ELSE c
upper(s) == [i \in DOMAIN s |-> UpperChar(s[i])]

\* str.strip(): the blanks at both ends are removed
RECURSIVE strip(_)
strip(s) ==
    IF s = <<>> THEN s
    ELSE IF Head(s) = " " THEN strip(Tail(s))
    ELSE IF s[Len(s)] = " " THEN strip(SubSeq(s, 1, Len(s) - 1))
    ELSE s

\* str.split(","): the parts between the commas, empty parts included
RECURSIVE split(_)
split(s) ==
    LET commas == {i \in DOMAIN s : s[i] = ","}
    IN IF commas = {} THEN <<s>>
       ELSE LET k == MinOf(commas)
            IN <<SubSeq(s, 1, k - 1)>> \o split(SubSeq(s, k + 1, Len(s)))

\* a faulty variant of Symbols: a symbol counts once for a post
Symbols_Distinct(tickers) ==
    LET parts == split(tickers)
        kept == SelectSeq(parts, LAMBDA part : strip(part) # <<>>)
        all == [i \in DOMAIN kept |-> [at |-> i, symbol |-> upper(strip(kept[i]))]]
        first == SelectSeq(all, LAMBDA x : \A j \in 1..(x.at - 1) : all[j].symbol # x.symbol)
    IN [i \in DOMAIN first |-> first[i].symbol]

\* [t.strip().upper() for t in tickers.split(",") if t.strip()] (and the
\* loop of parse_tickers_from_posts, which skips the empty symbols)
Symbols(tickers) ==
    LET parts == split(tickers)
        kept == SelectSeq(parts, LAMBDA part : strip(part) # <<>>)
    IN [i \in DOMAIN kept |-> upper(strip(kept[i]))]

\* a faulty variant of post_tickers: the parts are compared as they are
post_tickers_AsWritten(tickers) == split(tickers)

\* [t.strip().upper() for t in post.tickers.split(",")]
post_tickers(tickers) ==
    LET parts == split(tickers)
    IN [i \in DOMAIN parts |-> upper(strip(parts[i]))]

\* Post.tickers.ilike(f"%{ticker}%"): the pattern occurs in the column,
\* letters compared without case (NULL matches nothing)
ILike(column, ticker) ==
    /\ column # None
    /\ \E i \in 1..(Len(column[1]) + 1) :
          /\ i + Len(ticker) - 1 <= Len(column[1])
          /\ upper(SubSeq(column[1], i, i + Len(ticker) - 1)) = upper(ticker)

\* the tickers columns, position types, outcome percentages, scores and
\* creation times of the posts the ticker endpoints read
TickerFields ==
    {None, Some(<<>>), Some(<<"A">>), Some(<<"A", "B">>), Some(<<"A", ",", "A">>),
     Some(<<" ", "a", ",", ",", "b", " ">>)}
PositionTypes == <<"long", "calls", "short", "puts", "shares">>
GainPcts == <<None, Some(-5), Some(4), Some(6)>>
TickerScores == {-1, 2}
TicksPerHour == 20
TickerCreatedAts == {0, 8}
TickerReadTimes == {25}
Hours == {1}

\* a post of ticker A with one of the position types and one of the
\* outcomes (k numbers the combinations)
SentimentRow(k) ==
    [created_at |-> 8, score |-> 2, tickers |-> Some(<<"A">>),
     position_type |-> PositionTypes[(k \div Len(GainPcts)) + 1],
     gain_loss_pct |-> GainPcts[(k % Len(GainPcts)) + 1]]

\* tables of posts of one ticker that differ in position type and outcome
\* (the order of the rows makes no difference to a read: they are listed
\* with k not decreasing)
SentimentTables ==
    UNION {{[i \in 1..n |-> SentimentRow(code[i])] :
               code \in {c \in [1..n -> 0..(Len(PositionTypes) * Len(GainPcts) - 1)] :
                           \A i, j \in 1..n : i < j => c[i] <= c[j]}} :
           n \in 0..MaxFeedPosts}

\* posts without position that differ in the tickers column, the score and
\* the creation time
MentionRows ==
    [created_at : TickerCreatedAts, score : TickerScores, tickers : TickerFields,
     position_type : {"shares"}, gain_loss_pct : {None}]

\* tables of such posts (ids in the order of insertion)
MentionTables ==
    UNION {{rows \in [1..n -> MentionRows] :
               \A i, j \in 1..n : i < j => rows[i].created_at <= rows[j].created_at} :
           n \in 0..MaxMentionPosts}

\* the posts tables of the ticker endpoints
TickerTables == SentimentTables \cup MentionTables

\* query.all() without order_by: the rows in any order
AnyOrder(ids) ==
    {s \in [1..Cardinality(ids) -> ids] : \A i, j \in DOMAIN s : i # j => s[i] # s[j]}

\* the (ticker, post) pairs in the order the loops of _build_trending and of
\* parse_tickers_from_posts visit them
RECURSIVE Mentions(_, _)
Mentions(rows, posts) ==
    IF posts = <<>> THEN <<>>
    ELSE LET id == Head(posts)
             symbols == Symbols(rows[id].tickers[1])
         IN [i \in DOMAIN symbols |-> [ticker |-> symbols[i], post |-> id]]
               \o Mentions(rows, Tail(posts))

\* the keys of ticker_data in the order of their insertion
RECURSIVE Keys(_)
Keys(mentions) ==
    IF mentions = <<>> THEN <<>>
    ELSE LET before == Keys(SubSeq(mentions, 1, Len(mentions) - 1))
             ticker == mentions[Len(mentions)].ticker
         IN IF \E i \in DOMAIN before : before[i] = ticker
            THEN before ELSE Append(before, ticker)

\* sum of f over a set of indices
RECURSIVE SumOver(_, _)
SumOver(f, S) ==
    IF S = {} THEN 0
    ELSE LET x == CHOOSE y \in S : TRUE IN f[x] + SumOver(f, S \ {x})

\* ticker_data[ticker] after the loop
TickerData(rows, mentions, ticker) ==
    LET mine == {i \in DOMAIN mentions : mentions[i].ticker = ticker}
        row(i) == rows[mentions[i].post]
        gains == {i \in mine : row(i).gain_loss_pct # None}
    IN [mention_count |-> Cardinality(mine),
        total_score |-> SumOver([i \in mine |-> row(i).score], mine),
        gain_count |-> Cardinality(gains),
        gain_sum |-> SumOver([i \in gains |-> row(i).gain_loss_pct[1]], gains),
        bullish_count |-> Cardinality({i \in mine : row(i).position_type \in {"long", "calls"}}),
        bearish_count |-> Cardinality({i \in mine : row(i).position_type \in {"short", "puts"}})]

\* a faulty variant of Sentiment: the mean outcome is looked at first
Sentiment_OutcomeFirst(data) ==
    IF data.gain_count > 0 /\ data.gain_sum >= 5 * data.gain_count THEN "bullish"
    ELSE IF data.gain_count > 0 /\ data.gain_sum <= -5 * data.gain_count THEN "bearish"
    ELSE IF data.bullish_count > data.bearish_count THEN "bullish"
    ELSE IF data.bearish_count > data.bullish_count THEN "bearish"
    ELSE "neutral"

\* the sentiment of one ticker (avg_gain = gain_sum / gain_count)
Sentiment(data) ==
    IF data.bullish_count > data.bearish_count THEN "bullish"
    ELSE IF data.bearish_count > data.bullish_count THEN "bearish"
    ELSE IF data.gain_count > 0 /\ data.gain_sum >= 5 * data.gain_count THEN "bullish"
    ELSE IF data.gain_count > 0 /\ data.gain_sum <= -5 * data.gain_count THEN "bearish"
    ELSE "neutral"

\* round(avg_gain, 2), in hundredths (a mean of at most four integers is
\* never half way between two hundredths)
Round2(sum, count) == (200 * sum + count) \div (2 * count)

\* TrendingTickerResponse
TrendingEntry(ticker, data) ==
    [ticker |-> ticker, mention_count |-> data.mention_count,
     avg_gain_loss_pct |-> IF data.gain_count > 0
                           THEN Some(Round2(data.gain_sum, data.gain_count)) ELSE None,
     sentiment |-> Sentiment(data), total_score |-> data.total_score]

\* a faulty variant of TupleLess: the key is the mention count alone
TupleLess_CountOnly(x, y) == x.mention_count < y.mention_count

\* (x.mention_count, x.total_score) < (y.mention_count, y.total_score)
TupleLess(x, y) ==
    \/ x.mention_count < y.mention_count
    \/ x.mention_count = y.mention_count /\ x.total_score < y.total_score

\* trending.sort(key=lambda x: (x.mention_count, x.total_score), reverse=True)
RECURSIVE sort_trending(_)
sort_trending(items) ==
    IF items = <<>> THEN <<>>
    ELSE LET x == items[Len(items)]
             rest == sort_trending(SubSeq(items, 1, Len(items) - 1))
             smaller == {i \in DOMAIN rest : TupleLess(rest[i], x)}
             k == IF smaller = {} THEN Len(rest) + 1 ELSE MinOf(smaller)
         IN SubSeq(rest, 1, k - 1) \o <<x>> \o SubSeq(rest, k, Len(rest))

\* _build_trending(posts, limit)
_build_trending(rows, posts, limit) ==
    LET mentions == Mentions(rows, posts)
        keys == Keys(mentions)
        trending == [i \in DOMAIN keys |->
                        TrendingEntry(keys[i], TickerData(rows, mentions, keys[i]))]
    IN Limit(sort_trending(trending), limit)

\* the rows of get_trending_tickers' query: created_at >= cutoff, tickers
\* neither NULL nor ""
TrendingPosts(rows, hours, now) ==
    {id \in DOMAIN rows :
        /\ rows[id].created_at >= now - hours * TicksPerHour
        /\ rows[id].tickers # None
        /\ rows[id].tickers # Some(<<>>)}

\* GET /api/v1/tickers/trending (and the legacy /trending)
get_trending_tickers(hours, limit, now) ==
    /\ feed.status = 0
    /\ \E posts \in AnyOrder(TrendingPosts(feed.posts, hours, now)) :
          feed' = [feed EXCEPT !.request = [endpoint |-> "get_trending_tickers",
                                            hours |-> hours, limit |-> limit, now |-> now],
                               !.status = 200,
                               !.posts_all = posts,
                               !.result = _build_trending(feed.posts, posts, limit)]
    /\ UNCHANGED <<db, response, last, outbox, sess, started, comments, hub>>

\* parse_tickers_from_posts(matching_posts).get(ticker, {...}) as TickerDetail
TickerDetail(rows, posts, ticker) ==
    LET used == SelectSeq(posts, LAMBDA id : rows[id].tickers # None
                                              /\ rows[id].tickers # Some(<<>>))
        data == TickerData(rows, Mentions(rows, used), ticker)
    IN [ticker |-> ticker, post_count |-> data.mention_count,
        total_score |-> data.total_score,
        avg_gain_pct |-> IF data.gain_count > 0
                         THEN Some([sum |-> data.gain_sum, count |-> data.gain_count])
                         ELSE None,
        bullish_count |-> data.bullish_count, bearish_count |-> data.bearish_count]

\* the tickers a lookup asks for
LookupTickers == {<<"a">>, <<"A", "B">>, <<"B">>}

\* GET /api/v1/tickers/{ticker}
get_ticker(ticker, limit) ==
    /\ feed.status = 0
    /\ LET T == upper(ticker)
           found == {id \in DOMAIN feed.posts : ILike(feed.posts[id].tickers, T)}
       IN \E posts \in OrderByDesc(feed.posts, found, "created_at") :
             LET matching_posts ==
                    SelectSeq(posts, LAMBDA id :
                       /\ feed.posts[id].tickers # Some(<<>>)
                       /\ \E i \in DOMAIN post_tickers(feed.posts[id].tickers[1]) :
                             post_tickers(feed.posts[id].tickers[1])[i] = T)
             IN feed' = [feed EXCEPT
                           !.request = [endpoint |-> "get_ticker", ticker |-> ticker,
                                        limit |-> limit],
                           !.status = IF matching_posts = <<>> THEN 404 ELSE 200,
                           !.posts_all = IF matching_posts = <<>> THEN <<>>
                                         ELSE matching_posts,
                           !.result = IF matching_posts = <<>> THEN <<>>
                                      ELSE Limit(matching_posts, limit),
                           !.stats = IF matching_posts = <<>> THEN <<>>
                                     ELSE TickerDetail(feed.posts, matching_posts, T)]
    /\ UNCHANGED <<db, response, last, outbox, sess, started, comments, hub>>

\* a posts table and one read of it by a ticker endpoint
InitTickers ==
    /\ db = InitDb
    /\ response = NoResponse
    /\ last = NoCall
    /\ outbox = <<>>
    /\ sess = [w \in Workers |-> IdleSession]
    /\ started = 0
    /\ comments = {}
    /\ active_connections = {}
    /\ lock = NoHolder
    /\ tasks = <<>>
    /\ ws = [c \in Connections |-> NoEndpoint]
    /\ feed \in {[NoFeed EXCEPT !.posts = rows] : rows \in TickerTables}

NextTickers ==
    \/ \E hours \in Hours, limit \in Limits, now \in TickerReadTimes :
          get_trending_tickers(hours, limit, now)
    \/ \E ticker \in LookupTickers, limit \in Limits :
          get_ticker(ticker, limit)

SpecTickers == InitTickers /\ [][NextTickers]_vars

\* ====================================================== the properties
Endpoints == {"up", "down"}
Dir(e) == IF e = "up" THEN 1 ELSE -1

RowsOn(d, p) == {row \in d.votes : row.post_id = p}
RowsOnPostsOf(d, a) == {row \in d.votes : d.posts[row.post_id].agent_id = a}
PostsOf(d, a) == {p \in DOMAIN d.posts : d.posts[p].agent_id = a}

RECURSIVE SumVotes(_)
SumVotes(rows) ==
    IF rows = {} THEN 0
    ELSE LET r == CHOOSE x \in rows : TRUE IN r.vote + SumVotes(rows \ {r})

RECURSIVE SumScores(_, _)
SumScores(d, ps) ==
    IF ps = {} THEN 0
    ELSE LET p == CHOOSE x \in ps : TRUE IN d.posts[p].score + SumScores(d, ps \ {p})

\* the counter a vote of direction dir counts in, and the other one
Matching(post, dir) == IF dir = 1 THEN post.upvotes ELSE post.downvotes
Opposite(post, dir) == IF dir = 1 THEN post.downvotes ELSE post.upvotes

\* ---------------------------------------------------------------- C1
\* C1: after any sequence of completed upvote_post / downvote_post calls,
\* every post's score is exactly its upvotes minus its downvotes.
C1_ScoreIsUpvotesMinusDownvotes ==
    \A p \in PostIds :
        db.posts[p].score = db.posts[p].upvotes - db.posts[p].downvotes

C1_Witness ==
    /\ last.op # "none"
    /\ \E p \in PostIds : db.posts[p].upvotes >= 1 /\ db.posts[p].downvotes >= 1

\* ---------------------------------------------------------------- C2
\* C2: there is at most one Vote row per (voter, post), its direction is
\* +1 or -1, and a retraction leaves no row for the pair (no row with 0).
C2_OneRowPerPair ==
    /\ \A r1, r2 \in db.votes :
          (r1.agent_id = r2.agent_id /\ r1.post_id = r2.post_id) => r1 = r2
    /\ \A r \in db.votes : r.vote \in {1, -1}
    /\ (last.op = "delete") => MatchingVotes(db, last.voter, last.post_id) = {}

C2_Witness ==
    /\ last.op = "delete"
    /\ response.status = 200
    /\ db.votes # {}

\* ---------------------------------------------------------------- C3
\* C3: one vote call of voter v on an existing post p in direction d applies
\* exactly one transition, chosen by v's row on p: no row -> a row with d,
\* matching counter +1, score +d, owner karma +d; a row with d -> no row,
\* matching counter -1, score -d, karma -d; a row with -d -> the row set to
\* d, old counter -1, new counter +1, score +2d, karma +2d; and the call
\* returns the resulting score, upvotes, downvotes.
C3_Step ==
    LET v == last'.voter
        p == last'.post_id
        d == Dir(last'.endpoint)
    IN (p \in PostIds) =>
       LET before == MatchingVotes(db, v, p)
           after == MatchingVotes(db', v, p)
           old == db.posts[p]
           new == db'.posts[p]
           owner == old.agent_id
           moved(dm, dopp, ds) ==
               /\ Matching(new, d) = Matching(old, d) + dm
               /\ Opposite(new, d) = Opposite(old, d) + dopp
               /\ new.score = old.score + ds
               /\ db'.karma[owner] = db.karma[owner] + ds
       IN /\ response' = [status |-> 200, score |-> new.score,
                          upvotes |-> new.upvotes, downvotes |-> new.downvotes]
          /\ CASE before = {} ->
                    /\ Cardinality(after) = 1
                    /\ \A r \in after : r.vote = d
                    /\ moved(1, 0, d)
               [] \E r \in before : r.vote = d ->
                    /\ after = {}
                    /\ moved(-1, 0, -d)
               [] OTHER ->
                    /\ after = {[r EXCEPT !.vote = d] : r \in before}
                    /\ moved(1, -1, 2 * d)

C3_VoteTransition == [][C3_Step]_vars

C3_Witness ==
    /\ last.op = "update"
    /\ last.endpoint = "up"
    /\ response.status = 200
    /\ response.upvotes = 2

\* ---------------------------------------------------------------- C4
\* what a vote of voter v on post p can touch: v's row on p, p's counters
\* and the karma of p's owner
Touched(d, v, p) ==
    [rows |-> MatchingVotes(d, v, p), post |-> d.posts[p],
     karma |-> d.karma[d.posts[p].agent_id]]

\* C4 as stated: for any voter, post and direction, two consecutive identical
\* vote calls return the row, the counters, the score and the owner's karma
\* to their values before the first call, and a third identical call returns
\* the same result and state as the first.
C4_RetractionToggles ==
    \A v \in Agents, p \in PostIds, e \in Endpoints :
      \A o1 \in VoteOutcomes(db, v, p, e) :
        \A o2 \in VoteOutcomes(o1.db, v, p, e) :
          \A o3 \in VoteOutcomes(o2.db, v, p, e) :
            /\ Touched(o2.db, v, p) = Touched(db, v, p)
            /\ o3.response = o1.response
            /\ o3.db = o1.db

\* C4 (amended): when the voter does not hold the opposite vote on the post
\* before the first call, two consecutive identical vote calls return the
\* row, the counters, the score and the owner's karma to their values before
\* the first call; in every case a third identical call returns the same
\* result and state as the first.
C4_RetractionTogglesUnlessFlip ==
    \A v \in Agents, p \in PostIds, e \in Endpoints :
      \A o1 \in VoteOutcomes(db, v, p, e) :
        \A o2 \in VoteOutcomes(o1.db, v, p, e) :
          \A o3 \in VoteOutcomes(o2.db, v, p, e) :
            /\ (\A r \in MatchingVotes(db, v, p) : r.vote # -Dir(e)) =>
                  /\ Touched(o2.db, v, p) = Touched(db, v, p)
                  /\ o2.db = db
            /\ o3.response = o1.response
            /\ o3.db = o1.db

\* a vote and the same vote again have been made on the untouched database
C4_Witness ==
    /\ last.op = "delete"
    /\ response = [status |-> 200, score |-> 0, upvotes |-> 0, downvotes |-> 0]
    /\ db = InitDb

\* ---------------------------------------------------------------- C5
\* C5 as stated: for any voter and post, a vote in direction d followed by
\* the same voter's vote in direction -d changes the score and the owner's
\* karma by exactly -2d from the state after the first vote and leaves
\* exactly one row of the voter on the post, with direction -d.
C5_FlipSymmetry ==
    \A v \in Agents, p \in PostIds, e \in Endpoints :
      \A o1 \in VoteOutcomes(db, v, p, e) :
        \A o2 \in VoteOutcomes(o1.db, v, p, IF e = "up" THEN "down" ELSE "up") :
          /\ o2.db.posts[p].score = o1.db.posts[p].score - 2 * Dir(e)
          /\ o2.db.karma[PostOwners[p]] = o1.db.karma[PostOwners[p]] - 2 * Dir(e)
          /\ Cardinality(MatchingVotes(o2.db, v, p)) = 1
          /\ \A r \in MatchingVotes(o2.db, v, p) : r.vote = -Dir(e)

\* C5 (amended): when the voter does not already hold a vote of direction d
\* on the post (the first call is not a retraction), a vote in direction d
\* followed by the same voter's vote in direction -d changes the score and
\* the owner's karma by exactly -2d from the state after the first vote and
\* leaves exactly one row of the voter on the post, with direction -d.
C5_FlipSymmetryAfterVote ==
    \A v \in Agents, p \in PostIds, e \in Endpoints :
      (\A r \in MatchingVotes(db, v, p) : r.vote # Dir(e)) =>
        \A o1 \in VoteOutcomes(db, v, p, e) :
          \A o2 \in VoteOutcomes(o1.db, v, p, IF e = "up" THEN "down" ELSE "up") :
            /\ o2.db.posts[p].score = o1.db.posts[p].score - 2 * Dir(e)
            /\ o2.db.karma[PostOwners[p]] = o1.db.karma[PostOwners[p]] - 2 * Dir(e)
            /\ Cardinality(MatchingVotes(o2.db, v, p)) = 1
            /\ \A r \in MatchingVotes(o2.db, v, p) : r.vote = -Dir(e)

\* an upvote has been flipped to a downvote on a post nobody else voted on
C5_Witness ==
    /\ last.op = "update"
    /\ last.endpoint = "down"
    /\ response = [status |-> 200, score |-> -1, upvotes |-> 0, downvotes |-> 1]
    /\ \E r \in MatchingVotes(db, last.voter, last.post_id) : r.vote = -1

\* ---------------------------------------------------------------- C6
\* C6: with posts starting at score 0 and agents at karma 0, after any
\* sequence of completed vote calls every agent's karma is the sum of the
\* scores of its posts; and on a post of score 0 whose owner has karma 0, a
\* voter without a vote who upvotes, then downvotes, then downvotes again
\* leaves (score, karma) = (1, 1), then (-1, -1), then (0, 0).
C6_KarmaIsSumOfScores ==
    /\ \A a \in Agents : db.karma[a] = SumScores(db, PostsOf(db, a))
    /\ \A v \in Agents, p \in PostIds :
          (/\ db.posts[p].score = 0
           /\ db.karma[PostOwners[p]] = 0
           /\ MatchingVotes(db, v, p) = {}) =>
             \A o1 \in VoteOutcomes(db, v, p, "up") :
               \A o2 \in VoteOutcomes(o1.db, v, p, "down") :
                 \A o3 \in VoteOutcomes(o2.db, v, p, "down") :
                   /\ o1.db.posts[p].score = 1 /\ o1.db.karma[PostOwners[p]] = 1
                   /\ o2.db.posts[p].score = -1 /\ o2.db.karma[PostOwners[p]] = -1
                   /\ o3.db.posts[p].score = 0 /\ o3.db.karma[PostOwners[p]] = 0

\* both posts of agent 1 have been upvoted once
C6_Witness ==
    /\ last.op = "insert"
    /\ db.posts[1].score = 1
    /\ db.posts[2].score = 1
    /\ db.karma[1] = 2

\* ---------------------------------------------------------------- C7
\* exactly two requests were made and both have committed: one has returned
\* (it is `last`), worker w is about to return the other
BothCommitted(w) ==
    /\ started = 2
    /\ sess[w].pc = "respond"
    /\ \A x \in Workers \ {w} : sess[x].pc = "idle"
    /\ last.op # "none"

\* C7: whatever the interleaving of the vote requests of different voters on
\* posts of one agent, once they have committed the agent's karma is the sum
\* of the directions of the vote rows on its posts.
C7_KarmaConserved ==
    \A w \in Workers :
        (/\ BothCommitted(w)
         /\ last.voter # sess[w].voter
         /\ PostOwners[last.post_id] = PostOwners[sess[w].post_id]) =>
            LET a == PostOwners[last.post_id]
            IN db.karma[a] = SumVotes(RowsOnPostsOf(db, a))

\* ---------------------------------------------------------------- C8
\* C8: when two different voters vote on the same post concurrently and both
\* commits succeed, the post's upvotes and downvotes count both votes (every
\* vote row on it) and its score is upvotes - downvotes.
C8_NoLostIncrement ==
    \A w \in Workers :
        (/\ BothCommitted(w)
         /\ last.voter # sess[w].voter
         /\ last.post_id = sess[w].post_id) =>
            LET p == last.post_id
            IN /\ db.posts[p].upvotes = Cardinality({r \in RowsOn(db, p) : r.vote = 1})
               /\ db.posts[p].downvotes = Cardinality({r \in RowsOn(db, p) : r.vote = -1})
               /\ db.posts[p].score = db.posts[p].upvotes - db.posts[p].downvotes

\* ---------------------------------------------------------------- C9
\* C9: two concurrent identical vote requests of one voter on one post
\* serialize: never do both hold "no existing row" as the result of their
\* look-up (the second one sees the first one's row and retracts it).
C9_DoubleClickSerializes ==
    \A w1, w2 \in Workers :
        (/\ w1 # w2
         /\ sess[w1].pc \in {"mutate", "commit"}
         /\ sess[w2].pc \in {"mutate", "commit"}
         /\ sess[w1].voter = sess[w2].voter
         /\ sess[w1].post_id = sess[w2].post_id
         /\ sess[w1].endpoint = sess[w2].endpoint) =>
            ~(sess[w1].existing = NoRow /\ sess[w2].existing = NoRow)

\* ---------------------------------------------------------------- C10
\* C10: a vote request that lost a race is retried before it fails: a
\* request that ends in a server error has attempted its commit more than
\* once.
C10_ConflictRetried ==
    (response.status = 500) => last.attempts > 1

\* ---------------------------------------------------------------- C11
\* C11: a vote call that names a post id without a row answers 404 and
\* changes nothing: no post, karma, vote or comment row is written, and no
\* broadcast is scheduled.
C11_Step ==
    (/\ started' = started + 1
     /\ last'.endpoint \in Endpoints
     /\ last'.post_id \notin DOMAIN db.posts) =>
        /\ response'.status = 404
        /\ db' = db
        /\ comments' = comments
        /\ outbox' = <<>>
        /\ tasks' = tasks

C11_NotFoundChangesNothing == [][C11_Step]_vars

\* after a vote that was committed and published, a vote on a missing post
C11_Witness ==
    /\ response.status = 404
    /\ last.endpoint \in Endpoints
    /\ last.post_id \notin DOMAIN db.posts
    /\ db.votes # {}
    /\ Len(tasks) = 1

\* ---------------------------------------------------------------- C12
\* the change of score and karma a vote of direction d makes for a voter
\* whose rows on the post are `rows`
Delta(rows, d) ==
    IF rows = {} THEN d
    ELSE IF \E r \in rows : r.vote = d THEN -d ELSE 2 * d

\* C12: a vote of the owner of a post on that post is accepted (200) and
\* makes the transition any voter with the same row would make, so it moves
\* the owner's own karma; karma is not clamped: it moves by the full amount
\* also below zero.
C12_SelfVoteAccepted ==
    \A p \in PostIds, e \in Endpoints :
      LET owner == db.posts[p].agent_id
          mine == MatchingVotes(db, owner, p)
      IN \A o \in VoteOutcomes(db, owner, p, e) :
           /\ o.response.status = 200
           /\ o.db.posts[p].score = db.posts[p].score + Delta(mine, Dir(e))
           /\ o.db.karma[owner] = db.karma[owner] + Delta(mine, Dir(e))
           /\ \A u \in Agents :
                 ({r.vote : r \in MatchingVotes(db, u, p)} = {r.vote : r \in mine}) =>
                    \A o2 \in VoteOutcomes(db, u, p, e) :
                       /\ o2.db.posts = o.db.posts
                       /\ o2.db.karma = o.db.karma
                       /\ o2.response = o.response

\* the owner of a post has downvoted it and its karma is below zero
C12_Witness ==
    /\ last.voter = 1
    /\ last.post_id \in PostIds
    /\ last.endpoint = "down"
    /\ last.op = "insert"
    /\ response.status = 200
    /\ db.karma[1] = -2

\* ---------------------------------------------------------------- C13
\* C13: a broadcast is scheduled only by a vote, create_post or
\* create_comment request whose commit succeeded, and it carries what that
\* commit wrote (the counters of the post after the commit, the new post,
\* the new comment); a request whose write did not commit schedules nothing
\* and leaves every table as it was.
C13_Step ==
    IF started' = started + 1
    THEN /\ tasks' = tasks \o [i \in DOMAIN outbox' |-> NewTask(outbox'[i])]
         /\ Len(outbox') <= 1
         /\ (last'.op = "none") =>
               outbox' = <<>> /\ db' = db /\ comments' = comments
         /\ \A i \in DOMAIN outbox' :
               LET event == outbox'[i]
               IN /\ response'.status = 200
                  /\ last'.op # "none"
                  /\ CASE event.type = "post_vote" ->
                            /\ last'.endpoint \in Endpoints
                            /\ event = broadcast_post_vote(db', last'.post_id)
                       [] event.type = "new_post" ->
                            /\ last'.endpoint = "create_post"
                            /\ event.data.id \in DOMAIN db'.posts \ DOMAIN db.posts
                            /\ event.data.agent_id = db'.posts[event.data.id].agent_id
                       [] event.type = "new_comment" ->
                            /\ last'.endpoint = "create_comment"
                            /\ \E row \in comments' \ comments :
                                  event = broadcast_new_comment(row)
                       [] OTHER -> FALSE
    ELSE Len(tasks') = Len(tasks)

C13_PublishAfterCommit == [][C13_Step]_vars

\* one request was committed and published, the commit of the next one was
\* refused and nothing was scheduled for it
C13_Witness ==
    /\ started = 2
    /\ response.status = 500
    /\ last.endpoint = "create_comment"
    /\ outbox = <<>>
    /\ Len(tasks) = 1
    /\ Cardinality(DOMAIN db.posts) = Len(PostOwners) + 1

\* ---------------------------------------------------------------- C14
\* C14: what a vote request commits and answers is a function of the
\* database alone (the outcome the handler has with no Hub at all), and
\* no step of a broadcast or of a viewer changes the committed rows or the
\* answer afterwards: no send that fails, no empty registry and no end of a
\* broadcast rolls the vote back or turns the answer into an error.
C14_Step ==
    IF started' = started + 1
    THEN \E o \in VoteOutcomes(db, last'.voter, last'.post_id, last'.endpoint) :
            \/ /\ db' = o.db /\ response' = o.response /\ last' = o.call
               /\ outbox' = o.created
            \/ /\ o.call.op # "none"
               /\ db' = db /\ response' = ServerError /\ outbox' = <<>>
    ELSE UNCHANGED <<db, response, last, outbox, comments>>

C14_VoteIndependentOfHub == [][C14_Step]_vars

\* a vote was committed and answered, and every send of its broadcast raised
C14_Witness ==
    /\ response.status = 200
    /\ last.op = "insert"
    /\ db.votes # {}
    /\ \E t \in TaskIds :
          /\ tasks[t].pc = "discard"
          /\ tasks[t].connections = Connections
          /\ \A c \in tasks[t].connections : tasks[t].results[c] = "raised"

\* ---------------------------------------------------------------- C15
\* the frames of a viewer that are the message
Copies(c, message) == {i \in DOMAIN ws[c].pushed : ws[c].pushed[i] = message}

\* C15: when a broadcast returns, the send to every connection of its
\* snapshot has returned or raised; every connection whose send returned and
\* whose client is there has the message; the broadcast removes from the
\* registry exactly the connections whose send raised (a connection whose
\* send returned is missing only if its client has gone since: its endpoint
\* has called manager.disconnect or a later send to it raised in another
\* broadcast); nothing is raised to the publisher.
C15_Step ==
    \A t \in TaskIds :
      (tasks[t].pc \in {"gather", "discard"} /\ tasks'[t].pc = "done") =>
        LET task == tasks[t]
            failing == {c \in task.connections : task.results[c] = "raised"}
            others == task.connections \ failing
        IN /\ \A c \in task.connections : task.results[c] \in {"sent", "raised"}
           /\ \A c \in others :
                 /\ ws[c].client = "open" => Copies(c, task.message) # {}
                 /\ c \in active_connections => c \in active_connections'
                 /\ c \notin active_connections => ws[c].client # "open"
           /\ active_connections' = active_connections \ failing
           /\ UNCHANGED <<db, response, last, outbox>>

C15_BroadcastIsolation == [][C15_Step]_vars

\* a broadcast to two connections: one send raised, the other returned and
\* its viewer has the message and stays registered
C15_Witness ==
    \E t \in TaskIds : \E c1, c2 \in tasks[t].connections :
        /\ tasks[t].pc = "discard"
        /\ tasks[t].results[c1] = "raised"
        /\ tasks[t].results[c2] = "sent"
        /\ ws[c2].client = "open"
        /\ Copies(c2, tasks[t].message) # {}
        /\ c2 \in active_connections

\* ---------------------------------------------------------------- C16
\* who may hold the lock: a broadcast that is taking its snapshot or
\* discarding its dead connections and has no send in progress, an endpoint
\* inside manager.connect's add or inside manager.disconnect
LockScoped ==
    /\ \A t \in TaskIds :
          (lock = <<"broadcast", t>>) =>
             /\ tasks[t].pc \in {"snapshot", "discard"}
             /\ \A c \in tasks[t].connections : tasks[t].results[c] # "pending"
    /\ \A c \in Connections :
          /\ (lock = <<"connect", c>>) => ws[c].pc = "add"
          /\ (lock = <<"disconnect", c>>) => ws[c].pc = "discard"
    /\ \/ lock = NoHolder
       \/ \E t \in TaskIds : lock = <<"broadcast", t>>
       \/ \E c \in Connections : lock \in {<<"connect", c>>, <<"disconnect", c>>}

\* C16: the lock is never held by a broadcast that has a send in progress;
\* it is held only inside the add of connect, the discard of disconnect, the
\* snapshot and the discard of a broadcast; and every step that changes
\* active_connections is made by the holder of the lock, which releases it.
C16_Step ==
    /\ LockScoped
    /\ LockScoped'
    /\ (active_connections' # active_connections) =>
          lock # NoHolder /\ lock' = NoHolder

C16_LockOnlyAroundRegistry == [][C16_Step]_vars

\* a broadcast holds the lock for its snapshot while a send of an earlier
\* broadcast is in progress
C16_Witness ==
    \E t, u \in TaskIds :
        /\ lock = <<"broadcast", t>>
        /\ tasks[t].pc = "snapshot"
        /\ tasks[u].pc = "gather"
        /\ \E c \in tasks[u].connections : tasks[u].results[c] = "pending"

\* ---------------------------------------------------------------- C17
\* a send of some broadcast has neither returned nor raised
SendInProgress ==
    \E t \in TaskIds : \E c \in tasks[t].connections : tasks[t].results[c] = "pending"

Live(c) == ws[c].client = "open" /\ ws[c].pc \in {"receive", "pong"}

\* every send to a client that is still there is in progress or has put the
\* message on the client's side; a broadcast past its gather has no send in
\* progress
Delivered ==
    \A t \in TaskIds :
      /\ \A c \in tasks[t].connections :
            ws[c].client = "open" =>
               \/ tasks[t].results[c] = "pending"
               \/ tasks[t].results[c] = "sent" /\ Copies(c, tasks[t].message) # {}
      /\ tasks[t].pc = "discard" =>
            \A c \in tasks[t].connections : tasks[t].results[c] # "pending"

\* C18: a broadcast that takes its snapshot sends to every viewer that is
\* live at that moment, and each of these sends, once it is over, has
\* delivered the message to the viewer unless the viewer has gone away:
\* no event is skipped or dropped for a viewer that stays live. (That the
\* send is over at some time is up to the client; nothing is sent twice.)
C18_Step ==
    /\ Delivered
    /\ Delivered'
    /\ \A c \in Connections : Live(c) => c \in active_connections
    /\ \A t \in TaskIds :
          (tasks[t].pc = "snapshot" /\ tasks'[t].pc # "snapshot") =>
             \A c \in Connections :
                Live(c) => /\ tasks'[t].pc = "gather"
                           /\ c \in tasks'[t].connections

Phase(registry, endpoint, c) ==
    IF c \in registry
    THEN IF endpoint.client = "open" THEN 1 ELSE 2
    ELSE IF endpoint.pc \in {"closed", "accept", "add"} THEN 0 ELSE 3

\* C19: a connection only moves forward through Connected, Closing and
\* Removed. It enters the registry in the step that completes connect and
\* at no other time (so never again after its removal); it leaves the
\* registry only after its client has gone, either by the disconnect of its
\* endpoint or by a broadcast in which its send raised; while its client is
\* there and connect has completed it is registered; the snapshot of a
\* broadcast is the registry of that moment and only connections of a
\* snapshot are sent the message.
C19_Step ==
    /\ \A c \in Connections :
          /\ Phase(active_connections', ws'[c], c) >= Phase(active_connections, ws[c], c)
          /\ c \in active_connections => ws[c].pc \in {"receive", "pong", "discard"}
          /\ (c \in active_connections /\ ws[c].client = "open") <=> Live(c)
          /\ (c \notin active_connections /\ c \in active_connections') =>
                ws[c].pc = "add" /\ ws'[c].pc = "receive"
          /\ (c \in active_connections /\ c \notin active_connections') =>
                /\ ws[c].client # "open"
                /\ \/ ws[c].pc = "discard" /\ ws'[c].pc = "ended"
                   \/ \E t \in TaskIds : /\ tasks[t].pc = "discard"
                                         /\ tasks'[t].pc = "done"
                                         /\ tasks[t].results[c] = "raised"
          /\ Len(ws'[c].pushed) > Len(ws[c].pushed) =>
                \/ ws[c].pc = "pong"
                \/ \E t \in TaskIds : /\ c \in tasks[t].connections
                                      /\ tasks[t].results[c] = "pending"
                                      /\ tasks'[t].results[c] = "sent"
    /\ \A t \in TaskIds :
          (tasks[t].pc = "snapshot" /\ tasks'[t].pc = "gather") =>
             tasks'[t].connections = active_connections

C19_LifecycleForwardOnly == [][C19_Step]_vars

\* a connection was removed by a broadcast whose send to it raised, before
\* its endpoint has seen the disconnect; a later broadcast has taken its
\* snapshot without it
C19_Witness ==
    \E c \in Connections :
        /\ c \notin active_connections
        /\ ws[c].pc = "receive"
        /\ ws[c].client = "closed"
        /\ \E t \in TaskIds : /\ tasks[t].pc = "gather"
                              /\ c \notin tasks[t].connections

\* ---------------------------------------------------------------- C20
\* how often x occurs in a sequence
Count(seq, x) == Cardinality({i \in DOMAIN seq : seq[i] = x})

IsEnvelope(frame) ==
    /\ DOMAIN frame = {"type", "data", "timestamp"}
    /\ frame.type \in EventType

\* the pings of a viewer the endpoint has answered: those sent, less those
\* waiting in the socket and the one whose pong is being sent
PingsAnswered(c) ==
    Count(ws[c].sent, "ping") - Count(ws[c].inbox, "ping")
       - (IF ws[c].pc = "pong" THEN 1 ELSE 0)

\* C20: nothing is pushed to a viewer before connect has completed; every
\* frame pushed afterwards is an envelope with exactly the fields type, data
\* and timestamp and a type of EventType, or the text "pong"; a viewer that
\* is still there has exactly one pong for each of its pings the endpoint
\* has answered (a viewer that has gone has at most that many), so no other
\* text is replied to; every message a broadcast has built is an envelope.
C20_OnlyEnvelopesAndPongs ==
    /\ \A c \in Connections :
          /\ ws[c].pc \in {"closed", "accept", "add"} => ws[c].pushed = <<>>
          /\ \A i \in DOMAIN ws[c].pushed :
                ws[c].pushed[i] = TextFrame("pong") \/ IsEnvelope(ws[c].pushed[i])
          /\ Count(ws[c].pushed, TextFrame("pong")) <= PingsAnswered(c)
          /\ ws[c].client = "open" =>
                Count(ws[c].pushed, TextFrame("pong")) = PingsAnswered(c)
    /\ \A t \in TaskIds :
          tasks[t].pc \in {"snapshot", "gather", "discard"} => IsEnvelope(tasks[t].message)

\* a viewer has been pushed an event and the pong for its ping
C20_Witness ==
    \E c \in Connections :
        /\ Count(ws[c].sent, "ping") = 1
        /\ Count(ws[c].pushed, TextFrame("pong")) = 1
        /\ \E i \in DOMAIN ws[c].pushed : IsEnvelope(ws[c].pushed[i])

\* ---------------------------------------------------------------- C21
\* the age of a post at the read, in ticks, not below 0.1 hour
AgeTicks(p) == MaxOf({feed.request.now - feed.posts[p].created_at, MinAgeTicks})

\* key(p) >= key(q) for key(p) = (score(p) + 1) / ageHours(p)^1.5: both
\* sides are multiplied by the positive ageHours(p)^1.5 * ageHours(q)^1.5 and,
\* where both have the same sign, squared
KeyAtLeast(p, q) ==
    LET x == feed.posts[p].score + 1
        y == feed.posts[q].score + 1
    IN IF x >= 0 /\ y <= 0 THEN TRUE
       ELSE IF x < 0 /\ y >= 0 THEN FALSE
       ELSE IF x >= 0 THEN x * x * AgeTicks(q) ^ 3 >= y * y * AgeTicks(p) ^ 3
       ELSE x * x * AgeTicks(q) ^ 3 <= y * y * AgeTicks(p) ^ 3

HotRead == feed.status = 200 /\ feed.request.sort = "hot"

\* C21: the posts of a hot read, and the ranked candidates they are cut
\* from, are in non-increasing order of key(p) = (score + 1) / ageHours^1.5,
\* ageHours being at least 0.1.
C21_HotOrder ==
    HotRead =>
      /\ \A i, j \in DOMAIN feed.result :
            i < j => KeyAtLeast(feed.result[i], feed.result[j])
      /\ \A i, j \in DOMAIN feed.posts_all :
            i < j => KeyAtLeast(feed.posts_all[i], feed.posts_all[j])

\* a hot read that puts an older post of higher score before a newer one
\* that is younger than 0.1 hour
C21_Witness ==
    /\ HotRead
    /\ Len(feed.result) = 2
    /\ feed.posts[feed.result[1]].created_at < feed.posts[feed.result[2]].created_at
    /\ feed.posts[feed.result[1]].score > feed.posts[feed.result[2]].score
    /\ feed.request.now - feed.posts[feed.result[2]].created_at < MinAgeTicks
    /\ ~KeyAtLeast(feed.result[2], feed.result[1])

\* ---------------------------------------------------------------- C22
\* C22: of two ranked candidates of a hot read with the same score, not
\* negative, the one created later stands first, whatever the two ages are
\* (also when both are below 0.1 hour).
C22_YoungerFirst ==
    HotRead =>
      \A i, j \in DOMAIN feed.posts_all :
         LET p == feed.posts[feed.posts_all[i]]
             q == feed.posts[feed.posts_all[j]]
         IN (p.score = q.score /\ p.score >= 0 /\ p.created_at > q.created_at) => i < j

\* a hot read returned two posts of the same positive score, the younger
\* one first, the other one older than 0.1 hour
C22_Witness ==
    /\ HotRead
    /\ Len(feed.result) = 2
    /\ feed.posts[feed.result[1]].score = feed.posts[feed.result[2]].score
    /\ feed.posts[feed.result[1]].score > 0
    /\ feed.posts[feed.result[1]].created_at > feed.posts[feed.result[2]].created_at
    /\ AgeTicks(feed.result[2]) > MinAgeTicks

\* ---------------------------------------------------------------- C23
\* C23: of two ranked candidates of a hot read with equal keys, the one
\* created later stands first.
C23_TieMoreRecentFirst ==
    HotRead =>
      \A i, j \in DOMAIN feed.posts_all :
         LET p == feed.posts_all[i]
             q == feed.posts_all[j]
         IN (KeyAtLeast(p, q) /\ KeyAtLeast(q, p)
               /\ feed.posts[p].created_at > feed.posts[q].created_at) => i < j

\* a hot read returned two posts of equal keys and different scores, the
\* more recent one first
C23_Witness ==
    /\ HotRead
    /\ Len(feed.result) = 2
    /\ KeyAtLeast(feed.result[1], feed.result[2])
    /\ KeyAtLeast(feed.result[2], feed.result[1])
    /\ feed.posts[feed.result[1]].score < feed.posts[feed.result[2]].score
    /\ feed.posts[feed.result[2]].score > 0
    /\ feed.posts[feed.result[1]].created_at > feed.posts[feed.result[2]].created_at

\* ---------------------------------------------------------------- C24
\* the posts a read with the submolt of the request can see
Visible == Filtered(feed.posts, feed.request.submolt)

\* the ranked candidates of the read
Candidates == {feed.posts_all[i] : i \in DOMAIN feed.posts_all}

\* C24: the candidates of a hot read are HotWindow posts (all of them if
\* there are fewer) of the submolt asked for, none of them older than a post
\* left out; every post of the response is a candidate, and for an offset
\* that is not negative the response is the candidates from position offset
\* on, at most limit of them, in their ranked order.
C24_HotWindowOnly ==
    HotRead =>
      /\ Candidates \subseteq Visible
      /\ Cardinality(Candidates) = Len(feed.posts_all)
      /\ Len(feed.posts_all) = MinOf({HotWindow, Cardinality(Visible)})
      /\ \A p \in Candidates : \A q \in Visible \ Candidates :
            feed.posts[p].created_at >= feed.posts[q].created_at
      /\ \A i \in DOMAIN feed.result : feed.result[i] \in Candidates
      /\ feed.request.offset >= 0 =>
            /\ Len(feed.result) =
                  MaxOf({0, MinOf({feed.request.limit,
                                   Len(feed.posts_all) - feed.request.offset})})
            /\ \A i \in DOMAIN feed.result :
                  feed.result[i] = feed.posts_all[feed.request.offset + i]

\* the oldest post of the table has a higher key than both candidates and
\* is not in a hot page that has room for it
C24_Witness ==
    /\ HotRead
    /\ feed.request.offset = 0
    /\ Len(feed.result) = HotWindow
    /\ \E q \in Visible \ Candidates :
          /\ \A p \in Candidates : feed.posts[q].created_at < feed.posts[p].created_at
          /\ \A p \in Candidates : KeyAtLeast(q, p) /\ ~KeyAtLeast(p, q)

\* ---------------------------------------------------------------- C25
\* a read with sort=new or sort=top that was answered
PlainRead == feed.status = 200 /\ feed.request.sort \in {"new", "top"}

SortColumn == IF feed.request.sort = "new" THEN "created_at" ELSE "score"

\* C25: the posts of a sort=new read are in non-increasing order of
\* created_at, those of a sort=top read in non-increasing order of score,
\* and for an offset that is not negative the response is fully determined
\* by the table and the request: the rows from position offset on, at most
\* limit of them, of one total order of the posts.
C25_TotalOrders ==
    (PlainRead /\ feed.request.offset >= 0) =>
      /\ \A i, j \in DOMAIN feed.result :
            i < j => feed.posts[feed.result[i]][SortColumn]
                        >= feed.posts[feed.result[j]][SortColumn]
      /\ \A o \in GetPostsOutcomes(feed.posts, feed.request.submolt, feed.request.sort,
                                    feed.request.limit, feed.request.offset,
                                    feed.request.now) :
            o.result = feed.result

\* ---------------------------------------------------------------- C26
TrendingRead == feed.status = 200 /\ feed.request.endpoint = "get_trending_tickers"

\* the posts a trending read counts: created within the hours asked for,
\* with a tickers column that is not empty
Counted ==
    {id \in DOMAIN feed.posts :
        /\ feed.posts[id].created_at >=
              feed.request.now - feed.request.hours * TicksPerHour
        /\ feed.posts[id].tickers \notin {None, Some(<<>>)}}

\* how often a counted post names the ticker
Occurrences(id, ticker) ==
    Cardinality({i \in DOMAIN Symbols(feed.posts[id].tickers[1]) :
                    Symbols(feed.posts[id].tickers[1])[i] = ticker})

\* the mentions of the ticker by counted posts with one of the positions
CountOf(ticker, positions) ==
    LET S == {id \in Counted : feed.posts[id].position_type \in positions}
    IN SumOver([id \in S |-> Occurrences(id, ticker)], S)

\* the outcome percentages of the mentions of the ticker: how many, their sum
OutcomeCount(ticker) ==
    LET S == {id \in Counted : feed.posts[id].gain_loss_pct # None}
    IN SumOver([id \in S |-> Occurrences(id, ticker)], S)

OutcomeSum(ticker) ==
    LET S == {id \in Counted : feed.posts[id].gain_loss_pct # None}
    IN SumOver([id \in S |-> Occurrences(id, ticker) * feed.posts[id].gain_loss_pct[1]], S)

\* C26: the sentiment of every ticker of a trending result is bullish if
\* its bullish mentions (long, calls) outnumber its bearish ones (short,
\* puts), bearish if the bearish outnumber the bullish; with equal counts it
\* is bullish if there is a mean outcome and it is >= 5, bearish if there is
\* one and it is <= -5; neutral otherwise.
C26_SentimentOrder ==
    TrendingRead =>
      \A k \in DOMAIN feed.result :
         LET e == feed.result[k]
             bullish == CountOf(e.ticker, {"long", "calls"})
             bearish == CountOf(e.ticker, {"short", "puts"})
             n == OutcomeCount(e.ticker)
             sum == OutcomeSum(e.ticker)
         IN e.sentiment =
               IF bullish > bearish THEN "bullish"
               ELSE IF bearish > bullish THEN "bearish"
               ELSE IF n > 0 /\ sum >= 5 * n THEN "bullish"
               ELSE IF n > 0 /\ sum <= -5 * n THEN "bearish"
               ELSE "neutral"

\* three posts of one ticker with positions long, long, short, each with
\* an outcome of -5: bullish
C26_Witness ==
    /\ TrendingRead
    /\ Len(feed.posts) = 3
    /\ Cardinality({id \in DOMAIN feed.posts : feed.posts[id].position_type = "long"}) = 2
    /\ Cardinality({id \in DOMAIN feed.posts : feed.posts[id].position_type = "short"}) = 1
    /\ \A id \in DOMAIN feed.posts : feed.posts[id].gain_loss_pct = Some(-5)
    /\ Len(feed.result) = 1
    /\ feed.result[1].sentiment = "bullish"

\* ---------------------------------------------------------------- C27
\* the parts of the tickers column of a post, split on comma, that are the
\* ticker once trimmed and uppercased
PartsNaming(id, ticker) ==
    {i \in DOMAIN split(feed.posts[id].tickers[1]) :
        upper(strip(split(feed.posts[id].tickers[1])[i])) = ticker}

\* every symbol a counted post names
Named ==
    UNION {{upper(strip(split(feed.posts[id].tickers[1])[i])) :
               i \in DOMAIN split(feed.posts[id].tickers[1])} : id \in Counted} \ {<<>>}

\* C27: every ticker of a trending result is a trimmed, uppercased symbol
\* that is not empty and appears once in the result; its mention count is the
\* number of parts of the tickers columns of the counted posts that name it,
\* a part being counted as often as it occurs in a post; a result that the
\* limit does not cut holds every symbol named.
C27_MentionPerOccurrence ==
    TrendingRead =>
      /\ \A k \in DOMAIN feed.result :
            LET e == feed.result[k]
            IN /\ e.ticker = upper(strip(e.ticker))
               /\ e.ticker # <<>>
               /\ \A j \in DOMAIN feed.result : j # k => feed.result[j].ticker # e.ticker
               /\ e.mention_count =
                     SumOver([id \in Counted |-> Cardinality(PartsNaming(id, e.ticker))],
                             Counted)
      /\ Len(feed.result) < feed.request.limit =>
            {feed.result[k].ticker : k \in DOMAIN feed.result} = Named

\* a post tagged A,A and a post tagged " a,,b ": three mentions of A
C27_Witness ==
    /\ TrendingRead
    /\ \E id \in Counted : feed.posts[id].tickers = Some(<<"A", ",", "A">>)
    /\ \E id \in Counted : feed.posts[id].tickers = Some(<<" ", "a", ",", ",", "b", " ">>)
    /\ \E k \in DOMAIN feed.result :
          feed.result[k].ticker = <<"A">> /\ feed.result[k].mention_count = 3

\* ---------------------------------------------------------------- C28
\* the mention count and the total score of a symbol over the counted posts
MentionCount(ticker) ==
    SumOver([id \in Counted |-> Cardinality(PartsNaming(id, ticker))], Counted)

TotalScore(ticker) ==
    SumOver([id \in Counted |-> Cardinality(PartsNaming(id, ticker)) * feed.posts[id].score],
            Counted)

\* (count, score) of x is not below (count, score) of y
PairAtLeast(xc, xs, yc, ys) == xc > yc \/ (xc = yc /\ xs >= ys)

\* C28: a trending result is in non-increasing order of
\* (mention count, total score), compared as pairs; it holds limit tickers,
\* or all if fewer are named, and no ticker left out has a larger pair than
\* one that is in.
C28_TrendingOrder ==
    TrendingRead =>
      /\ \A i, j \in DOMAIN feed.result :
            i < j => PairAtLeast(feed.result[i].mention_count, feed.result[i].total_score,
                                 feed.result[j].mention_count, feed.result[j].total_score)
      /\ \A k \in DOMAIN feed.result :
            /\ feed.result[k].mention_count = MentionCount(feed.result[k].ticker)
            /\ feed.result[k].total_score = TotalScore(feed.result[k].ticker)
      /\ Len(feed.result) = MinOf({feed.request.limit, Cardinality(Named)})
      /\ \A ticker \in Named \ {feed.result[k].ticker : k \in DOMAIN feed.result} :
            \A k \in DOMAIN feed.result :
               PairAtLeast(feed.result[k].mention_count, feed.result[k].total_score,
                           MentionCount(ticker), TotalScore(ticker))

\* two tickers with one mention each and different total scores, limit 1:
\* the one with the higher total score is returned, and it was named by
\* the post that the query returned last
C28_Witness ==
    /\ TrendingRead
    /\ feed.request.limit = 1
    /\ Len(feed.result) = 1
    /\ \E ticker \in Named :
          /\ ticker # feed.result[1].ticker
          /\ MentionCount(ticker) = feed.result[1].mention_count
          /\ TotalScore(ticker) < feed.result[1].total_score
    /\ Len(feed.posts_all) = 2
    /\ PartsNaming(feed.posts_all[1], feed.result[1].ticker) = {}

\* ---------------------------------------------------------------- C29
LookupRead == feed.request # <<>> /\ feed.request.endpoint = "get_ticker"

\* the posts, of any age, whose tickers column has a part that is the
\* ticker asked for once both are trimmed / uppercased
MatchingPosts ==
    {id \in DOMAIN feed.posts :
        /\ feed.posts[id].tickers # None
        /\ PartsNaming(id, upper(feed.request.ticker)) # {}}

Returned == {feed.result[k] : k \in DOMAIN feed.result}

\* C29 as stated: the lookup fails with 404 exactly when no post matches,
\* and otherwise returns exactly the matching posts.
C29_ExactlyTheMatchingPosts ==
    LookupRead =>
      /\ feed.status = 404 <=> MatchingPosts = {}
      /\ feed.status = 200 => Returned = MatchingPosts

\* C29 amended: the lookup fails with 404 exactly when no post matches;
\* otherwise it returns matching posts only (never a post that has the
\* ticker merely inside a longer symbol), namely the limit most recently
\* created of them, or all if there are fewer, most recent first, and its
\* post_count counts the mentions of the ticker by all matching posts.
C29_MostRecentMatchingPosts ==
    LookupRead =>
      /\ feed.status \in {200, 404}
      /\ feed.status = 404 <=> MatchingPosts = {}
      /\ feed.status = 200 =>
            /\ Returned \subseteq MatchingPosts
            /\ Cardinality(Returned) = Len(feed.result)
            /\ Len(feed.result) = MinOf({feed.request.limit, Cardinality(MatchingPosts)})
            /\ \A i, j \in DOMAIN feed.result :
                  i < j => feed.posts[feed.result[i]].created_at
                              >= feed.posts[feed.result[j]].created_at
            /\ \A p \in Returned : \A q \in MatchingPosts \ Returned :
                  feed.posts[p].created_at >= feed.posts[q].created_at
            /\ feed.stats.post_count =
                  SumOver([id \in MatchingPosts |->
                              Cardinality(PartsNaming(id, upper(feed.request.ticker)))],
                          MatchingPosts)

\* a lookup of a over a post tagged AB and a post tagged " a,,b " returns
\* the second post only
C29_Witness ==
    /\ LookupRead
    /\ feed.status = 200
    /\ feed.request.ticker = <<"a">>
    /\ \E id \in DOMAIN feed.posts : feed.posts[id].tickers = Some(<<"A", "B">>)
    /\ Len(feed.result) = 1
    /\ feed.posts[feed.result[1]].tickers = Some(<<" ", "a", ",", ",", "b", " ">>)

\* ---------------------------------------------------------------- C30
\* the request that has just been served is a vote that was committed on a
\* post of agent a
VoteOnPostOf(a) ==
    /\ last'.endpoint \in {"up", "down"}
    /\ last'.op # "none"
    /\ last'.post_id \in DOMAIN db.posts
    /\ db.posts[last'.post_id].agent_id = a

\* C30: an agent's karma changes only in a step that commits a vote on one
\* of that agent's posts; a step that serves create_post, create_comment,
\* follow_agent, unfollow_agent, update_me or a read leaves every agent's
\* karma as it was.
C30_KarmaSingleWriter ==
    [][/\ \A a \in Agents : db'.karma[a] # db.karma[a] => VoteOnPostOf(a)
       /\ (started' # started /\ last'.endpoint \notin {"up", "down"})
             => db'.karma = db.karma]_vars

\* agent 1 has karma from a vote, and the request served last is a
\* create_post that reported an outcome and updated the caller's statistics
C30_Witness ==
    /\ db.karma[1] # 0
    /\ last.endpoint = "create_post"
    /\ last.op = "insert"
    /\ db.agents[1].total_trades = 1

\* ---------------------------------------------------------------- C31
\* the three trade statistics of an agent's row
Statistics(d, a) ==
    <<d.agents[a].total_trades, d.agents[a].win_rate, d.agents[a].total_gain_loss_pct>>

\* the posts of agent a that report an outcome, and their outcomes
OutcomePosts(d, a) ==
    {p \in DOMAIN d.posts : d.posts[p].agent_id = a /\ d.gain_loss_pct[p] # None}
Outcomes(d, a) == [p \in OutcomePosts(d, a) |-> d.gain_loss_pct[p][1]]

\* the step has served a create_post of agent a that was committed and
\* reported an outcome
ReportsOutcome(a) ==
    /\ started' # started
    /\ last'.endpoint = "create_post"
    /\ last'.op = "insert"
    /\ last'.voter = a
    /\ db'.gain_loss_pct[last'.post_id] # None

\* the trade count and the win rate after a step that reported an outcome
CountAndWinRate(a) ==
    /\ db'.agents[a].total_trades = db.agents[a].total_trades + 1
    /\ db'.agents[a].win_rate =
          Quotient(100 * Cardinality({p \in OutcomePosts(db', a) : Outcomes(db', a)[p] > 0}),
                   Cardinality(OutcomePosts(db', a)))

Untouched(d, v, p) ==
    [posts |-> [q \in DOMAIN d.posts \ {p} |-> d.posts[q]],
     votes |-> {row \in d.votes : row.agent_id # v \/ row.post_id # p},
     karma |-> [a \in Agents \ {d.posts[p].agent_id} |-> d.karma[a]],
     gain_loss_pct |-> d.gain_loss_pct, agents |-> d.agents, follows |-> d.follows]

\* C32: a step that changes the database is the commit of one vote request,
\* of voter v on post p, and it leaves every other post, every vote row of
\* another (voter, post) pair and the karma of every agent but p's owner
\* as they were; p keeps its owner.
C32_VoteFrame ==
    [][db' # db =>
         \E w \in Workers :
            /\ sess[w].pc = "commit"
            /\ sess'[w].pc = "respond"
            /\ sess[w].post_id \in DOMAIN db.posts
            /\ DOMAIN db'.posts = DOMAIN db.posts
            /\ db'.posts[sess[w].post_id].agent_id = db.posts[sess[w].post_id].agent_id
            /\ Untouched(db', sess[w].voter, sess[w].post_id)
                  = Untouched(db, sess[w].voter, sess[w].post_id)]_vars

\* agent 2 has voted on post 1 and agent 1 on post 2: the second commit
\* found the row and the counters of the first and left them
C32_Witness ==
    /\ \E r1, r2 \in db.votes :
          /\ r1.agent_id = 2 /\ r1.post_id = 1
          /\ r2.agent_id = 1 /\ r2.post_id = 2
    /\ db.posts[1].score # 0
    /\ db.posts[2].score # 0
    /\ db.karma[1] = db.posts[1].score + db.posts[2].score
    /\ db.karma[2] = 0

\* ---------------------------------------------------------------- C33
\* a send to connection c has raised in a broadcast that is still gathering
SendRaised(c) ==
    \E t \in TaskIds :
        /\ tasks[t].pc = "gather"
        /\ c \in tasks[t].connections
        /\ tasks[t].results[c] = "raised"

RowsWith(p, dir) == {row \in db.votes : row.post_id = p /\ row.vote = dir}

\* C34: after any sequence of completed vote calls, upvotes of every post
\* is the number of its vote rows with direction +1 and downvotes the
\* number with direction -1; neither is negative, neither exceeds the
\* number of voters.
C34_CountersCountRows ==
    \A p \in DOMAIN db.posts :
        /\ db.posts[p].upvotes = Cardinality(RowsWith(p, 1))
        /\ db.posts[p].downvotes = Cardinality(RowsWith(p, -1))
        /\ db.posts[p].upvotes \in 0..NumAgents
        /\ db.posts[p].downvotes \in 0..NumAgents

\* every agent has upvoted post 1, and post 2 has one vote of each direction
C34_Witness ==
    /\ db.posts[1].upvotes = NumAgents
    /\ db.posts[2].upvotes = 1
    /\ db.posts[2].downvotes = 1

\* ---------------------------------------------------------------- C35
\* the handler of coroutine w is between its first query and its return
InBody(w) == sess[w].pc # "idle"

\* what coroutine w has read is what the database holds
ReadsCurrent(w) ==
    LET s == sess[w]
    IN /\ s.pc \in {"vote", "mutate"} => s.post = db.posts[s.post_id]
       /\ s.pc = "mutate" => {s.existing} = FirstVote(db, s.voter, s.post_id)
       /\ s.pc = "commit" => ~UniqueViolation(db, s) /\ ~StaleUpdate(db, s)

\* C35: on one event loop at most one vote handler is between its first
\* query and its return; what it has read stays what the database holds
\* until it commits, and its commit is never rejected for a row that
\* another handler wrote in between.
C35_HandlersDoNotInterleave ==
    /\ \A w, x \in Workers : InBody(w) /\ InBody(x) => w = x
    /\ \A w \in Workers : ReadsCurrent(w)

\* a handler is about to commit a change of the row that the handler
\* before it inserted
C35_Witness ==
    \E w \in Workers :
        /\ sess[w].pc = "commit"
        /\ sess[w].existing # NoRow
        /\ sess[w].pending.op \in {"update", "delete"}
        /\ last.op = "insert"

\* ---------------------------------------------------------------- C36
\* the commit of the request of worker w raises in this step
CommitFails(w) == sess[w].pc = "commit" /\ sess'[w].pc = "idle"

\* C36: a vote request whose commit is rejected leaves every vote row,
\* counter and karma as committed before, creates no broadcast task, and
\* its caller gets a server error, not a {score, upvotes, downvotes} result.
C36_FailedCommitChangesNothing ==
    [][\A w \in Workers :
          CommitFails(w) =>
             /\ db' = db
             /\ outbox' = <<>>
             /\ response' = ServerError
             /\ last'.op = "none"
             /\ last'.voter = sess[w].voter /\ last'.post_id = sess[w].post_id]_vars

\* the second of two concurrent first votes of one voter on one post was
\* rejected by the unique index: one row, the counters of one vote
C36_Witness ==
    /\ response = ServerError
    /\ last.op = "none"
    /\ last.attempts = 1
    /\ last.post_id \in DOMAIN db.posts
    /\ Cardinality(MatchingVotes(db, last.voter, last.post_id)) = 1
    /\ db.posts[last.post_id].upvotes + db.posts[last.post_id].downvotes = 1
    /\ \A w \in Workers : sess[w].pc = "idle"

\* ---------------------------------------------------------------- C37
\* C37: from every database that sequences of vote calls reach, a vote call
\* served by the routes of main.py and the same call served by those of
\* routers/posts.py leave the same vote rows, counters and owner karma and
\* return the same result.
C37_SameOutcome ==
    \A v \in Agents, p \in RequestedIds, e \in {"up", "down"} :
        {[db |-> o.db, response |-> o.response] : o \in MainVoteOutcomes(db, v, p, e)}
          = {[db |-> o.db, response |-> o.response] : o \in VoteOutcomes(db, v, p, e)}

\* ---------------------------------------------------------------- C38
\* the post_vote events of post p among the frames connection c was sent,
\* in the order they were sent
RECURSIVE VoteEvents(_, _)
VoteEvents(frames, p) ==
    IF frames = <<>> THEN <<>>
    ELSE LET f == Head(frames)
         IN IF "type" \in DOMAIN f /\ f.type = "post_vote" /\ f.data.post_id = p
            THEN <<f>> \o VoteEvents(Tail(frames), p)
            ELSE VoteEvents(Tail(frames), p)

\* the broadcast that built the envelope: tasks are created in the order of
\* the commits and the envelope carries the number of its task
TaskOf(frame) == CHOOSE t \in TaskIds : isoformat(t) = frame.timestamp

C39_OlderNeverAbove ==
    HotRead =>
      \A i, j \in DOMAIN feed.posts_all :
         LET p == feed.posts[feed.posts_all[i]]
             q == feed.posts[feed.posts_all[j]]
         IN (p.score = q.score /\ p.created_at < q.created_at) => j < i

====
